---------------------------- MODULE Spec2Model ----------------------------
(***************************************************************************)
(* Entity simulation core of the platformer: bounding-box geometry,        *)
(* Player / Enemy / PowerUp per-frame updates against solid platforms,     *)
(* and the player's damage / coin counters.                                *)
(*                                                                         *)
(* Numbers.  The code computes in floating point with a frame step dt.     *)
(* The model fixes dt = 1/FPS and computes in exact fixed point:           *)
(*   time      1 unit = dt = 1/FPS s                                       *)
(*   velocity  1 unit = 1/VS px/s                                          *)
(*   position  1 unit = 1/PS px, PS = VS * FPS, so that  x += v * dt       *)
(*             is  x' = x + v  in units.                                   *)
(* Widths and heights stay in whole pixels, as in the code.                *)
(***************************************************************************)
EXTENDS Integers, Sequences, FiniteSets, TLC

(* ---- program constants (src/src/constants.py) ---- *)
FPS == 60
GRAVITY == 1200
TERMINAL_VELOCITY == 800
JUMP_SPEED == 0 - 600
PLAYER_SPEED == 200
PLAYER_WIDTH == 32
PLAYER_HEIGHT == 32
PLAYER_ACCELERATION == 1000
PLAYER_FRICTION == 800
TILE_SIZE == 32

(* ---- units ---- *)
RECURSIVE GCD(_, _)
GCD(m, n) == IF n = 0 THEN m ELSE GCD(n, m % n)

\* smallest velocity scale that makes every per-frame increment an integer
VS == FPS \div GCD(FPS, GCD(GRAVITY, GCD(PLAYER_ACCELERATION, PLAYER_FRICTION)))
PS == VS * FPS

Px(n) == n * PS           \* n pixels as a position
Vel(n) == n * VS          \* n px/s as a velocity
PerFrame(a) == (a * VS) \div FPS   \* a px/s^2 * dt as a velocity increment
Secs(n10) == (n10 * FPS) \div 10   \* n10 tenths of a second as a timer value

\* F applied to the value of v, v being computed once
Let(v, F(_)) == CHOOSE r \in {F(q) : q \in {v}} : TRUE

Abs(v) == IF v < 0 THEN 0 - v ELSE v
Max2(a, b) == IF a >= b THEN a ELSE b
Min2(a, b) == IF a <= b THEN a ELSE b

\* Python int(): truncation toward zero, result in whole pixels
IntTrunc(v) == IF v >= 0 THEN v \div PS ELSE 0 - ((0 - v) \div PS)

(* ---- Entity accessors (src/src/entity.py) ---- *)
Right(e) == e.x + Px(e.w)
Bottom(e) == e.y + Px(e.h)
Rect(e) == [x |-> IntTrunc(e.x), y |-> IntTrunc(e.y), w |-> e.w, h |-> e.h]

\* pygame.Rect.colliderect on rectangles of positive size
Colliderect(r, s) ==
    /\ r.x < s.x + s.w /\ s.x < r.x + r.w
    /\ r.y < s.y + s.h /\ s.y < r.y + r.h

\* variant: the geometric test alone, the solid flags ignored
collides_with_nosolid(a, b) ==
    IF ~(a.active /\ b.active)
    THEN FALSE
    ELSE Colliderect(Rect(a), Rect(b))

collides_with(a, b) ==
    IF ~(a.active /\ b.active /\ a.solid /\ b.solid)
    THEN FALSE
    ELSE Colliderect(Rect(a), Rect(b))

get_collision_side(a, b) ==
    IF ~collides_with(a, b) THEN "none"
    ELSE LET left_overlap == Max2(0, Right(a) - b.x)
             right_overlap == Max2(0, Right(b) - a.x)
             top_overlap == Max2(0, Bottom(a) - b.y)
             bottom_overlap == Max2(0, Bottom(b) - a.y)
             overlaps == {o \in {left_overlap, right_overlap, top_overlap, bottom_overlap} : o > 0}
         IN IF overlaps = {} THEN "none"
            ELSE LET min_overlap == CHOOSE m \in overlaps : \A o \in overlaps : m <= o
                 IN IF min_overlap = left_overlap THEN "right"
                    ELSE IF min_overlap = right_overlap THEN "left"
                    ELSE IF min_overlap = top_overlap THEN "bottom"
                    ELSE "top"

(* ---- Entity.move / Entity.destroy ---- *)
move(e, dx, dy) == [e EXCEPT !.x = @ + dx, !.y = @ + dy]
destroy(e) == [e EXCEPT !.active = FALSE]

(* ---- Platform (src/src/level.py) ---- *)
Platform(x, y, width, height) ==
    [type |-> "platform", x |-> x, y |-> y, w |-> width, h |-> height,
     vx |-> 0, vy |-> 0, active |-> TRUE, solid |-> TRUE]

\* a Platform per solid tile, as generate_platforms builds them
TilePlatform(tx, ty) == Platform(Px(tx * TILE_SIZE), Px(ty * TILE_SIZE), TILE_SIZE, TILE_SIZE)

IsSolidPlatform(self, e) == e # self /\ e.solid /\ e.type = "platform"

(* ---- Player (src/src/player.py) ---- *)
Player(x, y) ==
    [type |-> "player", x |-> x, y |-> y, w |-> PLAYER_WIDTH, h |-> PLAYER_HEIGHT,
     vx |-> 0, vy |-> 0, active |-> TRUE, solid |-> TRUE,
     grounded |-> FALSE, can_jump |-> TRUE, jump_buffer_time |-> 0, coyote_time |-> 0,
     facing_right |-> TRUE,
     power_level |-> 0, invulnerable |-> FALSE, invulnerable_timer |-> 0,
     lives |-> 3, score |-> 0, coins |-> 0]

NoKeys == [left |-> FALSE, right |-> FALSE, jump |-> FALSE, run |-> FALSE]
KeySnapshots == [left : BOOLEAN, right : BOOLEAN, jump : BOOLEAN, run : BOOLEAN]

\* variant: the power-level branch grants the 3.0 s window of the lives branch
take_damage_long(p) ==
    IF p.invulnerable THEN p
    ELSE IF p.power_level > 0
         THEN [p EXCEPT !.power_level = @ - 1, !.invulnerable = TRUE,
                        !.invulnerable_timer = Secs(30)]
         ELSE IF p.lives - 1 <= 0
              THEN [p EXCEPT !.lives = @ - 1, !.active = FALSE]
              ELSE [p EXCEPT !.lives = @ - 1, !.invulnerable = TRUE,
                             !.invulnerable_timer = Secs(30)]

\* variant: the power-level branch taken at power_level = 0 as well
take_damage_geq(p) ==
    IF p.invulnerable THEN p
    ELSE IF p.power_level >= 0
         THEN [p EXCEPT !.power_level = @ - 1, !.invulnerable = TRUE,
                        !.invulnerable_timer = Secs(20)]
         ELSE IF p.lives - 1 <= 0
              THEN [p EXCEPT !.lives = @ - 1, !.active = FALSE]
              ELSE [p EXCEPT !.lives = @ - 1, !.invulnerable = TRUE,
                             !.invulnerable_timer = Secs(30)]

\* variant: the last life is taken like the others, with a window
take_damage_window(p) ==
    IF p.invulnerable THEN p
    ELSE IF p.power_level > 0
         THEN [p EXCEPT !.power_level = @ - 1, !.invulnerable = TRUE,
                        !.invulnerable_timer = Secs(20)]
         ELSE [p EXCEPT !.lives = @ - 1, !.invulnerable = TRUE,
                        !.invulnerable_timer = Secs(30)]

take_damage(p) ==
    IF p.invulnerable THEN p
    ELSE IF p.power_level > 0
         THEN [p EXCEPT !.power_level = @ - 1, !.invulnerable = TRUE,
                        !.invulnerable_timer = Secs(20)]
         ELSE IF p.lives - 1 <= 0
              THEN [p EXCEPT !.lives = @ - 1, !.active = FALSE]
              ELSE [p EXCEPT !.lives = @ - 1, !.invulnerable = TRUE,
                             !.invulnerable_timer = Secs(30)]

\* variant: the counter wraps one collection late
collect_coin_late(p) ==
    IF p.coins + 1 > 100
    THEN [p EXCEPT !.coins = 0, !.score = @ + 100, !.lives = @ + 1]
    ELSE [p EXCEPT !.coins = @ + 1, !.score = @ + 100]

collect_coin(p) ==
    IF p.coins + 1 >= 100
    THEN [p EXCEPT !.coins = 0, !.score = @ + 100, !.lives = @ + 1]
    ELSE [p EXCEPT !.coins = @ + 1, !.score = @ + 100]

power_up(p) ==
    IF p.power_level < 2
    THEN [p EXCEPT !.power_level = @ + 1, !.score = @ + 1000]
    ELSE p

\* variant: acceleration and friction applied with no clamp
HorizontalVelocity_noclamp(p, keys) ==
    LET max_speed == Vel(PLAYER_SPEED)
        base == IF keys.left THEN 0 - max_speed
                ELSE IF keys.right THEN max_speed ELSE 0
        target_velocity == IF keys.run THEN base * 2 ELSE base
        velocity_diff == target_velocity - p.vx
    IN IF target_velocity = 0
       THEN p.vx + (IF p.vx > 0 THEN 0 - 1 ELSE 1) * PerFrame(PLAYER_FRICTION)
       ELSE p.vx + (IF velocity_diff > 0 THEN 1 ELSE 0 - 1) * PerFrame(PLAYER_ACCELERATION)

\* horizontal velocity: acceleration toward the target, or friction toward 0
HorizontalVelocity(p, keys) ==
    LET max_speed == Vel(PLAYER_SPEED)
        base == IF keys.left THEN 0 - max_speed
                ELSE IF keys.right THEN max_speed ELSE 0
        target_velocity == IF keys.run THEN base * 2 ELSE base
        fstep == PerFrame(PLAYER_FRICTION)
        astep == PerFrame(PLAYER_ACCELERATION)
        velocity_diff == target_velocity - p.vx
    IN IF target_velocity = 0
       THEN IF Abs(p.vx) < fstep THEN 0
            ELSE p.vx + (IF p.vx > 0 THEN 0 - 1 ELSE 1) * fstep
       ELSE IF Abs(velocity_diff) < astep THEN target_velocity
            ELSE p.vx + (IF velocity_diff > 0 THEN 1 ELSE 0 - 1) * astep

\* update_physics, in the order of the code: horizontal velocity, jump,
\* gravity, timers
\* variant: a jump that keeps the jump eligibility
PhysicsJump_keep(p1, keys) ==
    IF keys.jump /\ p1.jump_buffer_time > 0 /\ (p1.can_jump \/ p1.coyote_time > 0)
    THEN [p1 EXCEPT !.vy = Vel(JUMP_SPEED),
                    !.jump_buffer_time = 0, !.coyote_time = 0, !.grounded = FALSE]
    ELSE p1

PhysicsJump(p1, keys) ==
    IF keys.jump /\ p1.jump_buffer_time > 0 /\ (p1.can_jump \/ p1.coyote_time > 0)
    THEN [p1 EXCEPT !.vy = Vel(JUMP_SPEED), !.can_jump = FALSE,
                    !.jump_buffer_time = 0, !.coyote_time = 0, !.grounded = FALSE]
    ELSE p1

PhysicsGravity(p2) ==
    IF ~p2.grounded
    THEN [p2 EXCEPT !.vy = Min2(@ + PerFrame(GRAVITY), Vel(TERMINAL_VELOCITY))]
    ELSE p2

\* variant: the window is closed only by a timer below zero
PhysicsTimers_below(p3) ==
    [p3 EXCEPT !.jump_buffer_time = IF @ > 0 THEN @ - 1 ELSE @,
               !.coyote_time = IF @ > 0 THEN @ - 1 ELSE @,
               !.invulnerable_timer = IF @ > 0 THEN @ - 1 ELSE @,
               !.invulnerable = IF p3.invulnerable_timer > 0 /\ p3.invulnerable_timer - 1 < 0
                                THEN FALSE ELSE @]

PhysicsTimers(p3) ==
    [p3 EXCEPT !.jump_buffer_time = IF @ > 0 THEN @ - 1 ELSE @,
               !.coyote_time = IF @ > 0 THEN @ - 1 ELSE @,
               !.invulnerable_timer = IF @ > 0 THEN @ - 1 ELSE @,
               !.invulnerable = IF p3.invulnerable_timer > 0 /\ p3.invulnerable_timer - 1 <= 0
                                THEN FALSE ELSE @]

update_physics(p, keys) ==
    Let([p EXCEPT !.vx = HorizontalVelocity(p, keys),
                  !.facing_right = IF keys.left THEN FALSE
                                   ELSE IF keys.right THEN TRUE ELSE @],
        LAMBDA p1 : Let(PhysicsJump(p1, keys),
        LAMBDA p2 : Let(PhysicsGravity(p2),
        LAMBDA p3 : PhysicsTimers(p3))))

\* variant: a probe that finds no ground runs the coyote timer down
check_ground_collision_tick(p, entities) ==
    LET test_rect == [x |-> IntTrunc(p.x), y |-> IntTrunc(p.y + Px(p.h)), w |-> p.w, h |-> 1]
        hit == \E i \in 1..Len(entities) :
                  IsSolidPlatform(p, entities[i]) /\ Colliderect(test_rect, Rect(entities[i]))
    IN IF hit
       THEN [p EXCEPT !.grounded = TRUE, !.can_jump = TRUE, !.coyote_time = Secs(2)]
       ELSE [p EXCEPT !.grounded = FALSE,
                      !.coyote_time = IF @ > 0 THEN @ - 1 ELSE 0]

check_ground_collision(p, entities) ==
    LET test_rect == [x |-> IntTrunc(p.x), y |-> IntTrunc(p.y + Px(p.h)), w |-> p.w, h |-> 1]
        hit == \E i \in 1..Len(entities) :
                  IsSolidPlatform(p, entities[i]) /\ Colliderect(test_rect, Rect(entities[i]))
    IN IF hit
       THEN [p EXCEPT !.grounded = TRUE, !.can_jump = TRUE, !.coyote_time = Secs(2)]
       ELSE [p EXCEPT !.grounded = FALSE]

\* variant: a landing that pins the position but keeps the fall speed
ResolveAgainst_keepvy(p, entity) ==
    LET collision_side == get_collision_side(p, entity)
    IN IF collision_side = "bottom" /\ p.vy > 0
       THEN [p EXCEPT !.y = entity.y - Px(p.h), !.grounded = TRUE, !.can_jump = TRUE]
       ELSE IF collision_side = "top" /\ p.vy < 0
       THEN [p EXCEPT !.y = Bottom(entity), !.vy = 0]
       ELSE IF collision_side = "left" /\ p.vx > 0
       THEN [p EXCEPT !.x = entity.x - Px(p.w), !.vx = 0]
       ELSE IF collision_side = "right" /\ p.vx < 0
       THEN [p EXCEPT !.x = Right(entity), !.vx = 0]
       ELSE p

\* the effect of one platform on the player inside handle_platform_collision
ResolveAgainst(p, entity) ==
    LET collision_side == get_collision_side(p, entity)
    IN IF collision_side = "bottom" /\ p.vy > 0
       THEN [p EXCEPT !.y = entity.y - Px(p.h), !.vy = 0, !.grounded = TRUE, !.can_jump = TRUE]
       ELSE IF collision_side = "top" /\ p.vy < 0
       THEN [p EXCEPT !.y = Bottom(entity), !.vy = 0]
       ELSE IF collision_side = "left" /\ p.vx > 0
       THEN [p EXCEPT !.x = entity.x - Px(p.w), !.vx = 0]
       ELSE IF collision_side = "right" /\ p.vx < 0
       THEN [p EXCEPT !.x = Right(entity), !.vx = 0]
       ELSE p

RECURSIVE PlatformLoop(_, _, _)
PlatformLoop(p, entities, i) ==
    IF i > Len(entities) THEN p
    ELSE Let(IF IsSolidPlatform(p, entities[i]) /\ collides_with(p, entities[i])
             THEN ResolveAgainst(p, entities[i]) ELSE p,
             LAMBDA q : PlatformLoop(q, entities, i + 1))

handle_platform_collision(p, entities) == PlatformLoop(p, entities, 1)

WORLD_DEPTH == 1000

\* Player.update; the intermediate positions are kept for the frame record
PlayerUpdateSteps(p, keys, entities) ==
    IF ~p.active THEN [midx |-> p, midy |-> p, out |-> p, passes |-> << >>]
    ELSE
    Let(update_physics(IF keys.jump THEN [p EXCEPT !.jump_buffer_time = Secs(1)] ELSE p, keys),
    LAMBDA p1 : Let([p1 EXCEPT !.x = @ + p1.vx],
    LAMBDA mx : Let(handle_platform_collision(mx, entities),
    LAMBDA rx : Let([rx EXCEPT !.y = @ + rx.vy],
    LAMBDA my : Let(handle_platform_collision(my, entities),
    LAMBDA ry : Let(check_ground_collision(ry, entities),
    LAMBDA g : [midx |-> mx, midy |-> my,
                out |-> IF g.y > Px(WORLD_DEPTH) THEN take_damage(g) ELSE g,
                passes |-> <<"move_x", "resolve", "move_y", "resolve">>]))))))

(* ---- Enemy, Goomba (src/src/enemies.py) ---- *)
Enemy(x, y, width, height, enemy_type) ==
    [type |-> "enemy", enemy_type |-> enemy_type,
     x |-> x, y |-> y, w |-> width, h |-> height,
     vx |-> 0, vy |-> 0, active |-> TRUE, solid |-> TRUE,
     direction |-> 0 - 1, patrol_distance |-> Px(100), start_x |-> x, speed |-> Vel(50),
     grounded |-> FALSE, health |-> 1, can_be_stomped |-> TRUE, stomp_points |-> 100,
     stunned |-> FALSE, stun_timer |-> 0, dead |-> FALSE, death_timer |-> 0]

Goomba(x, y) ==
    [Enemy(x, y, 24, 24, "goomba") EXCEPT !.speed = Vel(30), !.patrol_distance = Px(80)]

HitsPlatform(self, test_rect, entities) ==
    \E i \in 1..Len(entities) :
        IsSolidPlatform(self, entities[i]) /\ Colliderect(test_rect, Rect(entities[i]))

enemy_check_ground_collision(e, entities) ==
    [e EXCEPT !.grounded =
        HitsPlatform(e, [x |-> IntTrunc(e.x), y |-> IntTrunc(e.y + Px(e.h)),
                         w |-> e.w, h |-> 1], entities)]

check_wall_collision(e, entities) ==
    LET test_x == e.x + (IF e.direction > 0 THEN Px(e.w) ELSE 0 - Px(1))
    IN HitsPlatform(e, [x |-> IntTrunc(test_x), y |-> IntTrunc(e.y), w |-> 1, h |-> e.h],
                    entities)

check_cliff_ahead(e, entities) ==
    LET test_x == e.x + (IF e.direction > 0 THEN Px(e.w + 10) ELSE 0 - Px(10))
    IN ~HitsPlatform(e, [x |-> IntTrunc(test_x), y |-> IntTrunc(e.y + Px(e.h)),
                         w |-> 1, h |-> 10], entities)

GoombaAI(e, entities) ==
    LET d1 == IF check_wall_collision(e, entities) \/ check_cliff_ahead(e, entities)
              THEN 0 - e.direction ELSE e.direction
        d2 == IF Abs(e.x - e.start_x) > e.patrol_distance THEN 0 - d1 ELSE d1
    IN [e EXCEPT !.direction = d2, !.vx = d2 * e.speed]

(* A timer that accumulates dt is an IEEE-754 double.  Doubles below 4.0   *)
(* are kept as the integer number of 2^-58 they hold, in three limbs of 20 *)
(* bits <<high, middle, low>>; a sum is rounded to 53 significant bits,    *)
(* ties to even.                                                           *)
LIMB == 1048576

FZero == <<0, 0, 0>>

\* 2.0 = 2^59 * 2^-58
FTwo == <<524288, 0, 0>>

\* the double nearest to 1/60: 4803839602528529 * 2^-58
FDT == <<4369, 69905, 69905>>

FAddExact(p, q) ==
    LET c == p[3] + q[3]
        b == p[2] + q[2] + (c \div LIMB)
        a == p[1] + q[1] + (b \div LIMB)
    IN <<a, b % LIMB, c % LIMB>>

\* the unit in the last place of a value with that high limb
RECURSIVE Ulp(_, _)
Ulp(a, u) == IF a < 8192 * u THEN u ELSE Ulp(a, 2 * u)

FRound(n) ==
    LET u == Ulp(n[1], 1)
        r == n[3] % u
        down == <<n[1], n[2], n[3] - r>>
        up == FAddExact(down, <<0, 0, u>>)
    IN IF r = 0 THEN n
       ELSE IF 2 * r < u THEN down
       ELSE IF 2 * r > u THEN up
       ELSE IF (n[3] \div u) % 2 = 0 THEN down ELSE up

FloatAdd(p, q) == FRound(FAddExact(p, q))

FloatGeq(p, q) ==
    \/ p[1] > q[1]
    \/ p[1] = q[1] /\ p[2] > q[2]
    \/ p[1] = q[1] /\ p[2] = q[2] /\ p[3] >= q[3]

\* Piranha.update_ai
PiranhaAI(e) ==
    LET t == FloatAdd(e.pop_timer, FDT)
    IN IF e.popped_up
       THEN IF FloatGeq(t, e.pop_duration)
            THEN [e EXCEPT !.popped_up = FALSE, !.pop_timer = FZero, !.visible = FALSE,
                           !.solid = FALSE, !.y = e.original_y + e.pipe_height]
            ELSE [e EXCEPT !.pop_timer = t]
       ELSE IF FloatGeq(t, e.hide_duration)
            THEN [e EXCEPT !.popped_up = TRUE, !.pop_timer = FZero, !.visible = TRUE,
                           !.solid = TRUE, !.y = e.original_y]
            ELSE [e EXCEPT !.pop_timer = t]

\* Koopa.update_ai: the shell timer, then the patrol of the Goomba
KoopaAI(e, entities) ==
    LET e1 == IF e.shell_mode
              THEN IF e.shell_timer - 1 <= 0
                   THEN [e EXCEPT !.shell_timer = @ - 1, !.shell_mode = FALSE,
                                  !.h = 32, !.vx = 0]
                   ELSE [e EXCEPT !.shell_timer = @ - 1]
              ELSE e
    IN IF ~e1.shell_mode /\ ~e1.stunned THEN GoombaAI(e1, entities) ELSE e1

update_ai(e, entities) ==
    IF e.enemy_type = "goomba" THEN GoombaAI(e, entities)
    ELSE IF e.enemy_type = "piranha" THEN PiranhaAI(e)
    ELSE IF e.enemy_type = "koopa" THEN KoopaAI(e, entities)
    ELSE e

\* the effect of one platform on the enemy inside Enemy.update_physics
EnemyResolveAgainst(e, entity) ==
    LET collision_side == get_collision_side(e, entity)
    IN IF collision_side = "bottom" /\ e.vy > 0
       THEN [e EXCEPT !.y = entity.y - Px(e.h), !.vy = 0, !.grounded = TRUE]
       ELSE IF collision_side = "top" /\ e.vy < 0
       THEN [e EXCEPT !.y = Bottom(entity), !.vy = 0]
       ELSE IF collision_side \in {"left", "right"}
       THEN [e EXCEPT !.x = IF collision_side = "left" THEN entity.x - Px(e.w)
                             ELSE Right(entity),
                      !.direction = 0 - @, !.vx = 0]
       ELSE e

RECURSIVE EnemyPlatformLoop(_, _, _)
EnemyPlatformLoop(e, entities, i) ==
    IF i > Len(entities) THEN e
    ELSE Let(IF IsSolidPlatform(e, entities[i]) /\ collides_with(e, entities[i])
             THEN EnemyResolveAgainst(e, entities[i]) ELSE e,
             LAMBDA q : EnemyPlatformLoop(q, entities, i + 1))

\* Enemy.update_physics; the intermediate positions are kept for the frame record
EnemyPhysicsSteps(e, entities) ==
    Let(IF ~e.grounded
        THEN [e EXCEPT !.vy = Min2(@ + PerFrame(GRAVITY), Vel(TERMINAL_VELOCITY))]
        ELSE e,
    LAMBDA e1 : Let(enemy_check_ground_collision(e1, entities),
    LAMBDA e2 : Let([e2 EXCEPT !.x = @ + e2.vx],
    LAMBDA mx : Let([mx EXCEPT !.y = @ + mx.vy],
    LAMBDA my : [midx |-> mx, midy |-> my, out |-> EnemyPlatformLoop(my, entities, 1),
                 passes |-> <<"move_x", "move_y", "resolve">>]))))

\* Enemy.update
EnemyUpdateSteps(e, entities) ==
    LET e1 == IF e.stun_timer > 0
              THEN [e EXCEPT !.stun_timer = @ - 1,
                             !.stunned = IF e.stun_timer - 1 <= 0 THEN FALSE ELSE @]
              ELSE e
    IN IF ~e.active THEN [midx |-> e, midy |-> e, out |-> e, passes |-> << >>]
       ELSE IF e1.dead
       THEN LET e2 == [e1 EXCEPT !.death_timer = @ - 1]
                e3 == IF e2.death_timer <= 0 THEN destroy(e2) ELSE e2
            IN [midx |-> e3, midy |-> e3, out |-> e3, passes |-> << >>]
       ELSE Let(IF ~e1.stunned THEN update_ai(e1, entities) ELSE e1,
                LAMBDA e2 : EnemyPhysicsSteps(e2, entities))

(* ---- PowerUp, Mushroom, FireFlower (src/src/powerups.py) ---- *)
PowerUp(x, y, kind) ==
    [type |-> "powerup", kind |-> kind, x |-> x, y |-> y, w |-> 20, h |-> 20,
     vx |-> 0, vy |-> 0, active |-> TRUE, solid |-> FALSE,
     grounded |-> FALSE, speed |-> Vel(60), direction |-> 1]

Mushroom(x, y) == PowerUp(x, y, "mushroom")
FireFlower(x, y) == [PowerUp(x, y, "fire_flower") EXCEPT !.speed = 0]

\* variant: the bonus is granted on every application
apply_to_bonus(u, p) ==
    IF u.kind = "mushroom"
    THEN [p EXCEPT !.power_level = IF @ < 1 THEN 1 ELSE @, !.score = @ + 1000]
    ELSE IF u.kind = "fire_flower"
    THEN [p EXCEPT !.power_level = IF @ < 2 THEN 2 ELSE @, !.score = @ + 1000]
    ELSE p

apply_to(u, p) ==
    IF u.kind = "mushroom"
    THEN IF p.power_level < 1 THEN [p EXCEPT !.power_level = 1, !.score = @ + 1000] ELSE p
    ELSE IF u.kind = "fire_flower"
    THEN IF p.power_level < 2 THEN [p EXCEPT !.power_level = 2, !.score = @ + 1000] ELSE p
    ELSE p

\* index of the first solid platform the power-up collides with, 0 if none
FirstPlatformHit(u, entities) ==
    LET hits == {i \in 1..Len(entities) :
                    IsSolidPlatform(u, entities[i]) /\ collides_with(u, entities[i])}
    IN IF hits = {} THEN 0 ELSE CHOOSE i \in hits : \A j \in hits : i <= j

\* PowerUp.update up to, and without, the pickup loop
PowerUpBounce(mx, entities, hx) ==
    IF hx = 0 THEN mx
    ELSE [mx EXCEPT !.x = IF mx.x < entities[hx].x THEN entities[hx].x - Px(mx.w)
                          ELSE Right(entities[hx]),
                    !.direction = 0 - @]

PowerUpLand(my, entities, hy) ==
    IF hy = 0 THEN my
    ELSE IF my.y < entities[hy].y
         THEN [my EXCEPT !.y = entities[hy].y - Px(my.h), !.grounded = TRUE, !.vy = 0]
         ELSE [my EXCEPT !.y = Bottom(entities[hy]), !.vy = 0]

PowerUpMoveSteps(u, entities) ==
    Let([u EXCEPT !.vy = IF ~u.grounded
                         THEN Min2(@ + PerFrame(GRAVITY), Vel(TERMINAL_VELOCITY)) ELSE @,
                  !.vx = u.direction * u.speed],
    LAMBDA u2 : Let([u2 EXCEPT !.x = @ + u2.vx],
    LAMBDA mx : Let(PowerUpBounce(mx, entities, FirstPlatformHit(mx, entities)),
    LAMBDA rx : Let([rx EXCEPT !.y = @ + rx.vy, !.grounded = FALSE],
    LAMBDA my : [midx |-> mx, midy |-> my,
                 out |-> PowerUpLand(my, entities, FirstPlatformHit(my, entities)),
                 passes |-> <<"move_x", "resolve", "move_y", "resolve">>]))))

\* the pickup loop: does the power-up reach this player
PicksUp(u, p) == p.type = "player" /\ p.active /\ collides_with(u, p)

(***************************************************************************)
(* State.                                                                  *)
(*   platforms  the solid Platform entities of the level, in list order    *)
(*   player, enemy, powerup   the entity of each kind, or Absent           *)
(*   frames     update() calls made so far (bounds the exploration)        *)
(*   hist       record of the last call: its name, the entity before it,   *)
(*              the entity right after each displacement, the order of     *)
(*              the displacement / resolution passes                       *)
(*   hits       for every take_damage call so far, was the player          *)
(*              invulnerable when it was made                              *)
(*   geoA, geoB, geoRes   operands and result of a geometry query          *)
(*   mgr        the EntityManager: its live list and its two pending       *)
(*              lists, holding the names of the entities above             *)
(*   coin, goal the Coin and the GoalFlag of the level, or Absent           *)
(*   game       the fields of the PlayingState, or NoGame                   *)
(*   block      the QuestionBlock under study, or Absent                    *)
(***************************************************************************)
VARIABLES platforms, player, enemy, powerup, frames, hist, hits, geoA, geoB, geoRes, mgr,
          coin, goal, game, block

vars == <<platforms, player, enemy, powerup, frames, hist, hits, geoA, geoB, geoRes, mgr, coin, goal, game, block>>

Absent == [type |-> "absent", active |-> FALSE, solid |-> FALSE]

\* a 4x4 level: ground tiles (0..3, 3) and a stone tile (3, 2) standing on the
\* last one; the order is the order generate_platforms emits them in
LevelA == <<TilePlatform(3, 2), TilePlatform(0, 3), TilePlatform(1, 3),
            TilePlatform(2, 3), TilePlatform(3, 3)>>

(* ---- bounds ---- *)
MaxFrames == 4
MaxEnemyFrames == 12
MaxPowerUpFrames == 6
MaxHits == 3
MaxPowerUps == 3
MaxCollects == 101
MaxPowerHits == 2
MaxCoyoteFrames == 20
MaxBufferFrames == 24

\* an entity part-way through a fall that began at rest: 25 frames of gravity
Falling(e) == [e EXCEPT !.vy = 25 * PerFrame(GRAVITY)]

PlayerSpawns ==
    { Player(Px(64), Px(64)),              \* on the ground, touching the stone tile
      Player(Px(50), Px(64)),              \* on the ground, across two tiles
      Player(Px(32), Px(63)),              \* one pixel above a ground tile
      Falling(Player(Px(32), Px(40))) }    \* falling onto a ground tile

EnemySpawns ==
    { Goomba(Px(36), Px(68)),              \* four pixels above a ground tile
      Goomba(Px(70), Px(72)),              \* on the ground, near the stone tile
      Falling(Goomba(Px(36), Px(50))) }    \* falling onto a ground tile

PowerUpSpawns == { Mushroom(Px(40), Px(70)), FireFlower(Px(40), Px(70)) }

\* EntityManager.__init__
NoManager == [entities |-> << >>, entities_to_add |-> << >>, entities_to_remove |-> << >>]

\* no PlayingState has been entered
NoGame == [state |-> "none"]

NoExtras == /\ coin = Absent /\ goal = Absent /\ game = NoGame /\ block = Absent

NoGeo == /\ geoA = Absent /\ geoB = Absent /\ geoRes = [op |-> "none"]

Init ==
    /\ platforms = LevelA
    /\ \/ player \in PlayerSpawns /\ enemy = Absent /\ powerup = Absent
       \/ player = Absent /\ enemy \in EnemySpawns /\ powerup = Absent
       \/ player = Absent /\ enemy = Absent /\ powerup \in PowerUpSpawns
    /\ frames = 0
    /\ hist = [op |-> "init"]
    /\ hits = << >>
    /\ NoGeo
    /\ mgr = NoManager
    /\ NoExtras

\* one call of Player.update with the given key snapshot
PlayerFrame(keys) ==
    /\ player.type = "player"
    /\ \E s \in {PlayerUpdateSteps(player, keys, platforms)} :
          /\ player' = s.out
          /\ hist' = [op |-> "player_update", pre |-> player,
                      midx |-> s.midx, midy |-> s.midy, passes |-> s.passes]

PlayerUpdateCall ==
    /\ frames < MaxFrames
    /\ \E keys \in KeySnapshots : PlayerFrame(keys)
    /\ frames' = frames + 1
    /\ UNCHANGED <<platforms, enemy, powerup, hits, geoA, geoB, geoRes, mgr, coin, goal, game, block>>

EnemyUpdateCall ==
    /\ enemy.type = "enemy"
    /\ frames < MaxEnemyFrames
    /\ \E s \in {EnemyUpdateSteps(enemy, platforms)} :
          /\ enemy' = s.out
          /\ hist' = [op |-> "enemy_update", pre |-> enemy,
                      midx |-> s.midx, midy |-> s.midy, passes |-> s.passes]
    /\ frames' = frames + 1
    /\ UNCHANGED <<platforms, player, powerup, hits, geoA, geoB, geoRes, mgr, coin, goal, game, block>>

PowerUpUpdateCall ==
    /\ powerup.type = "powerup"
    /\ frames < MaxPowerUpFrames
    /\ \E s \in {PowerUpMoveSteps(powerup, platforms)} :
       \E picked \in {PicksUp(s.out, player)} :
          /\ powerup' = IF picked THEN destroy(s.out) ELSE s.out
          /\ player' = IF picked THEN apply_to(s.out, player) ELSE player
          /\ hist' = [op |-> "powerup_update", pre |-> powerup,
                      midx |-> s.midx, midy |-> s.midy, passes |-> s.passes]
    /\ frames' = frames + 1
    /\ UNCHANGED <<platforms, enemy, hits, geoA, geoB, geoRes, mgr, coin, goal, game, block>>

Next == PlayerUpdateCall \/ EnemyUpdateCall \/ PowerUpUpdateCall

Spec == Init /\ [][Next]_vars

(* ---- Properties of the per-frame updates ---- *)

SolidPlatforms == {i \in 1..Len(platforms) : platforms[i].solid /\ platforms[i].active}

\* C2: at the end of every Player.update the player's box intersects the box
\* of no solid platform, whatever keys were held.
C2_NoPenetration ==
    (hist.op = "player_update" /\ player.active) =>
        \A i \in SolidPlatforms : ~collides_with(player, platforms[i])

\* the frame record is that of an update that moved an entity
MovedEntity == hist.op \in {"player_update", "enemy_update"} /\ hist.passes # << >>

\* the entity after the update the frame record describes
Updated == IF hist.op = "player_update" THEN player ELSE enemy

\* e is above plat and its horizontal extent lies within plat's
DirectlyAbove(e, plat) == plat.x <= e.x /\ Right(e) <= Right(plat) /\ e.y < plat.y

\* in the recorded frame the entity, falling from directly above platform i,
\* had its box overlap the platform for the first time
FirstOverlapFromAbove(i) ==
    /\ MovedEntity
    /\ hist.midy.vy > 0
    /\ DirectlyAbove(hist.pre, platforms[i]) /\ DirectlyAbove(hist.midy, platforms[i])
    /\ ~collides_with(hist.pre, platforms[i])
    /\ collides_with(hist.midy, platforms[i])

\* C3: an entity (player or enemy) falling with vy > 0 from directly above a
\* solid platform, in the frame its box first overlaps the platform, ends the
\* frame with its bottom on the platform's top, vy = 0 and grounded.
C3_Landing ==
    \A i \in SolidPlatforms :
        FirstOverlapFromAbove(i) =>
            /\ Bottom(Updated) = platforms[i].y
            /\ Updated.y = platforms[i].y - Px(Updated.h)
            /\ Updated.vy = 0
            /\ Updated.grounded

\* a player has landed from a fall
C3_Witness ==
    hist.op = "player_update" /\ \E i \in SolidPlatforms : FirstOverlapFromAbove(i)

\* an enemy has landed from a fall
C3_WitnessEnemy ==
    hist.op = "enemy_update" /\ \E i \in SolidPlatforms : FirstOverlapFromAbove(i)

\* the player's bottom edge is on the top of platform i, under its footprint
RestsOn(p, i) ==
    /\ Bottom(p) = platforms[i].y
    /\ p.x < Right(platforms[i]) /\ platforms[i].x < Right(p)

\* C4: at the end of an update, a player whose bottom edge coincides with the
\* top of a solid platform under its footprint, with vy >= 0, is grounded
\* with vy = 0.
C4_Resting ==
    (hist.op = "player_update" /\ player.active /\ player.vy >= 0
       /\ \E i \in SolidPlatforms : RestsOn(player, i))
    => (player.grounded /\ player.vy = 0)

\* after the horizontal displacement the player overlaps platform i and the
\* least positive overlap is the one named
LeastIsRightMinusLeft(p, i) ==
    /\ collides_with(p, platforms[i])
    /\ Right(p) - platforms[i].x > 0
    /\ \A o \in {Right(platforms[i]) - p.x, Bottom(p) - platforms[i].y,
                 Bottom(platforms[i]) - p.y} : o > 0 => Right(p) - platforms[i].x <= o

LeastIsLeftMinusRight(p, i) ==
    /\ collides_with(p, platforms[i])
    /\ Right(platforms[i]) - p.x > 0
    /\ \A o \in {Right(p) - platforms[i].x, Bottom(p) - platforms[i].y,
                 Bottom(platforms[i]) - p.y} : o > 0 => Right(platforms[i]) - p.x <= o

\* C5: a player moving right whose box, after the horizontal displacement,
\* overlaps a solid platform least by player.right - platform.left ends the
\* update with its right edge on the platform's left edge and vx = 0; and
\* symmetrically when moving left.
C5_WallPin ==
    (hist.op = "player_update" /\ hist.passes # << >>) =>
        \A i \in SolidPlatforms :
            /\ (hist.midx.vx > 0 /\ LeastIsRightMinusLeft(hist.midx, i))
                   => (player.x = platforms[i].x - Px(player.w) /\ player.vx = 0)
            /\ (hist.midx.vx < 0 /\ LeastIsLeftMinusRight(hist.midx, i))
                   => (player.x = Right(platforms[i]) /\ player.vx = 0)

\* C7: every moving entity (player, enemy, power-up) resolves platform
\* collisions after the horizontal displacement and before the vertical
\* one, then again after the vertical one; none applies both displacements
\* and resolves once.
C7_TwoPasses ==
    (hist.op \in {"player_update", "enemy_update", "powerup_update"} /\ hist.passes # << >>)
        => hist.passes = <<"move_x", "resolve", "move_y", "resolve">>

(* ---- Damage, power level and coins of the player ---- *)

\* the player as constructed, standing on the floor of the level
InitPlayer ==
    /\ platforms = LevelA
    /\ player = Player(Px(TILE_SIZE), Px(2 * TILE_SIZE))
    /\ enemy = Absent /\ powerup = Absent
    /\ frames = 0
    /\ hist = [op |-> "init"]
    /\ hits = << >>
    /\ NoGeo
    /\ mgr = NoManager
    /\ NoExtras

\* a frame with no key held
IdleFrame ==
    /\ PlayerFrame(NoKeys)
    /\ UNCHANGED <<platforms, enemy, powerup, frames, hits, geoA, geoB, geoRes, mgr, coin, goal, game, block>>

\* player.take_damage() as the engine calls it on an active player
HitUpTo(n) ==
    /\ player.type = "player" /\ player.active
    /\ Len(hits) < n
    /\ player' = take_damage(player)
    /\ hits' = Append(hits, [invulnerable |-> player.invulnerable,
                             power_level |-> player.power_level])
    /\ hist' = [op |-> "take_damage", pre |-> player]
    /\ UNCHANGED <<platforms, enemy, powerup, frames, geoA, geoB, geoRes, mgr, coin, goal, game, block>>

\* player.power_up()
PowerUpCall ==
    /\ player.type = "player" /\ player.active
    /\ player.score < 1000 * MaxPowerUps
    /\ player' = power_up(player)
    /\ hist' = [op |-> "power_up", pre |-> player]
    /\ UNCHANGED <<platforms, enemy, powerup, frames, hits, geoA, geoB, geoRes, mgr, coin, goal, game, block>>

TakeDamage == HitUpTo(MaxHits)

NextDamage == IdleFrame \/ TakeDamage \/ PowerUpCall

SpecDamage == InitPlayer /\ [][NextDamage]_vars

\* C8: take_damage on an invulnerable player changes nothing; otherwise with
\* power_level > 0 it lowers power_level by 1, keeps lives and starts a 2.0 s
\* invulnerability window; otherwise it lowers lives by 1 and either
\* deactivates the player with no invulnerability (lives <= 0) or starts a
\* 3.0 s window.
C8_TakeDamage ==
    hist.op = "take_damage" =>
        IF hist.pre.invulnerable
        THEN player = hist.pre
        ELSE IF hist.pre.power_level > 0
        THEN /\ player.power_level = hist.pre.power_level - 1
             /\ player.lives = hist.pre.lives
             /\ player.active = hist.pre.active
             /\ player.invulnerable /\ player.invulnerable_timer = 2 * FPS
        ELSE /\ player.lives = hist.pre.lives - 1
             /\ player.power_level = hist.pre.power_level
             /\ IF player.lives <= 0
                THEN /\ ~player.active
                     /\ ~player.invulnerable
                     /\ player.invulnerable_timer = hist.pre.invulnerable_timer
                ELSE /\ player.active = hist.pre.active
                     /\ player.invulnerable /\ player.invulnerable_timer = 3 * FPS

\* a powered-up player has been hit while not invulnerable
C8_Witness ==
    hist.op = "take_damage" /\ ~hist.pre.invulnerable /\ hist.pre.power_level > 0

\* the last life has been lost
C8_WitnessDeath ==
    hist.op = "take_damage" /\ ~hist.pre.invulnerable /\ player.lives <= 0

\* an invulnerable player has been hit
C8_WitnessNoOp ==
    hist.op = "take_damage" /\ hist.pre.invulnerable

\* the constructed player (power_level 0, lives 3), never powered up, has
\* been hit exactly twice and was not invulnerable at either hit
TwoCleanHits ==
    /\ Len(hits) = 2
    /\ \A i \in 1..2 : ~hits[i].invulnerable
    /\ player.score = 0

\* C9 (as stated): after the two hits lives = 2 and power_level = 0.
C9_TwoHitsLivesTwo ==
    TwoCleanHits => (player.lives = 2 /\ player.power_level = 0)

\* C9 (amended): after the two hits lives = 1 and power_level = 0.
C9_TwoHitsLivesOne ==
    TwoCleanHits => (player.lives = 1 /\ player.power_level = 0 /\ player.active)

C9_Witness == TwoCleanHits /\ hist.op = "take_damage"

\* player.collect_coin() as a coin calls it on an active player
CollectCoin ==
    /\ player.type = "player" /\ player.active
    /\ player.score < 100 * MaxCollects
    /\ player' = collect_coin(player)
    /\ hist' = [op |-> "collect_coin", pre |-> player]
    /\ UNCHANGED <<platforms, enemy, powerup, frames, hits, geoA, geoB, geoRes, mgr, coin, goal, game, block>>

NextCoins == CollectCoin \/ TakeDamage

SpecCoins == InitPlayer /\ [][NextCoins]_vars

\* collect_coin calls made so far (nothing else changes the score here)
Collected == player.score \div 100

\* lives lost to hits so far (the power level stays 0 here)
LivesLost == Cardinality({i \in 1..Len(hits) : ~hits[i].invulnerable})

\* C10: every collect_coin adds 100 score and 1 coin; the counter stays in
\* 0..99; exactly on each 100th collection it wraps to 0 and lives grows by
\* exactly 1; 100 collections from coins = 0 give coins = 0 and one more life.
C10_Coins ==
    /\ player.coins \in 0..99
    /\ player.coins = Collected % 100
    /\ player.lives = 3 - LivesLost + (Collected \div 100)
    /\ hist.op = "collect_coin" =>
          /\ player.score = hist.pre.score + 100
          /\ IF Collected % 100 = 0
             THEN player.coins = 0 /\ hist.pre.coins = 99
                  /\ player.lives = hist.pre.lives + 1
             ELSE player.coins = hist.pre.coins + 1
                  /\ player.lives = hist.pre.lives

\* the 100th coin has just been collected
C10_Witness ==
    hist.op = "collect_coin" /\ Collected = 100 /\ player.coins = 0

(* ---- Power-up application ---- *)

\* Mushroom.apply_to / FireFlower.apply_to on an active player
ApplyPowerUp(u) ==
    /\ player.type = "player" /\ player.active
    /\ player.score < 1000 * MaxPowerUps
    /\ player' = apply_to(u, player)
    /\ hist' = [op |-> "apply_to", kind |-> u.kind, pre |-> player]
    /\ UNCHANGED <<platforms, enemy, powerup, frames, hits, geoA, geoB, geoRes, mgr, coin, goal, game, block>>

MushroomApply == ApplyPowerUp(Mushroom(Px(0), Px(0)))
FireFlowerApply == ApplyPowerUp(FireFlower(Px(0), Px(0)))

\* a hit between applications
PowerHit == HitUpTo(MaxPowerHits)

NextPower == IdleFrame \/ PowerHit \/ PowerUpCall \/ MushroomApply \/ FireFlowerApply

SpecPower == InitPlayer /\ [][NextPower]_vars

\* the record is that of a power-up application
Applied == hist.op \in {"apply_to", "power_up"}

\* the level the recorded application aims at
AppliedTarget ==
    IF hist.op = "power_up" THEN hist.pre.power_level + 1
    ELSE IF hist.kind = "mushroom" THEN 1 ELSE 2

\* C11: applying Mushroom, FireFlower or power_up never lowers power_level
\* and never raises it above 2; an application that does not raise it (the
\* power-up is held or exceeded, or the level is 2) changes neither
\* power_level nor score; one that raises it adds the bonus exactly once.
C11_PowerMonotone ==
    /\ player.type = "player" => player.power_level \in 0..2
    /\ Applied =>
          /\ player.power_level >= hist.pre.power_level
          /\ IF hist.pre.power_level >= 2 \/ hist.pre.power_level >= AppliedTarget
             THEN player = hist.pre
             ELSE /\ player.power_level = AppliedTarget
                  /\ player.score = hist.pre.score + 1000
                  /\ player = [hist.pre EXCEPT !.power_level = AppliedTarget,
                                               !.score = @ + 1000]

\* a Mushroom has been applied to a player that holds the fire flower
C11_Witness ==
    hist.op = "apply_to" /\ hist.kind = "mushroom" /\ hist.pre.power_level = 2

\* an application has raised the level
C11_WitnessRaise ==
    Applied /\ player.power_level > hist.pre.power_level

(* ---- Jumping: coyote time and jump buffer ---- *)

\* no airborne jump press is being remembered
NoPress == 0 - 1

\* update_physics has triggered a jump in the frame whose state after the
\* horizontal displacement is mx: vy was set to JUMP_SPEED and, the player
\* being no longer grounded, gravity was added once
JumpTriggered(mx) == mx.vy = Vel(JUMP_SPEED) + PerFrame(GRAVITY)

\* the frame record before the first update
JumpRecord0 ==
    [op |-> "init", keys |-> NoKeys, air |-> 0, age |-> NoPress,
     land |-> FALSE, trig |-> FALSE]

\* one Player.update; the frame record also keeps
\*   air   updates since the last ground probe that found ground
\*   age   updates since the last one in which jump went from released to
\*         held while airborne without triggering a jump (NoPress if none,
\*         or a jump came after)
\*   land  the ground probe found ground and the previous one had not
\*   trig  a jump was triggered
\* and the values of the update before as air_before, prev_*
JumpFrame(keys) ==
    /\ player.type = "player"
    /\ \E s \in {PlayerUpdateSteps(player, keys, platforms)} :
       \E trig \in {s.passes # << >> /\ JumpTriggered(s.midx)} :
          /\ player' = s.out
          /\ hist' = [op |-> "player_update", pre |-> player,
                      midx |-> s.midx, midy |-> s.midy, passes |-> s.passes,
                      keys |-> keys,
                      air_before |-> hist.air,
                      air |-> IF s.out.grounded THEN 0 ELSE hist.air + 1,
                      age |-> IF trig THEN NoPress
                              ELSE IF keys.jump /\ ~hist.keys.jump /\ ~player.grounded THEN 0
                              ELSE IF hist.age = NoPress THEN NoPress
                              ELSE hist.age + 1,
                      land |-> s.out.grounded /\ ~player.grounded,
                      trig |-> trig,
                      prev_keys |-> hist.keys,
                      prev_age |-> hist.age, prev_land |-> hist.land,
                      prev_trig |-> hist.trig]
    /\ frames' = frames + 1
    /\ UNCHANGED <<platforms, enemy, powerup, hits, geoA, geoB, geoRes, mgr, coin, goal, game, block>>

LeftKey == [NoKeys EXCEPT !.left = TRUE]
LeftJumpKeys == [NoKeys EXCEPT !.left = TRUE, !.jump = TRUE]
JumpKey == [NoKeys EXCEPT !.jump = TRUE]

\* the player as constructed, standing with one pixel of its box over the
\* left end of the floor
InitLedge ==
    /\ platforms = LevelA
    /\ player = Player(Px(1 - PLAYER_WIDTH), Px(2 * TILE_SIZE))
    /\ enemy = Absent /\ powerup = Absent
    /\ frames = 0
    /\ hist = JumpRecord0
    /\ hits = << >>
    /\ NoGeo
    /\ mgr = NoManager
    /\ NoExtras

\* a frame with left held, with or without jump
WalkFrame == frames < MaxCoyoteFrames /\ JumpFrame(LeftKey)
WalkJumpFrame == frames < MaxCoyoteFrames /\ JumpFrame(LeftJumpKeys)

NextCoyote == WalkFrame \/ WalkJumpFrame

SpecCoyote == InitLedge /\ [][NextCoyote]_vars

\* C12: a jump is triggered in a frame only if the previous ground probe
\* found ground or the player left the ground no more than 0.2 s before.
C12_CoyoteWindow ==
    (hist.op = "player_update" /\ hist.trig) => hist.air_before * 10 <= 2 * FPS

\* a jump has been triggered within the window, after the ground was left
C12_Witness ==
    hist.op = "player_update" /\ hist.trig /\ hist.air_before > 0
    /\ hist.air_before * 10 <= 2 * FPS

\* one floor tile with a ceiling tile three tiles above it
LevelB == <<TilePlatform(1, 0), TilePlatform(1, 3)>>

\* the player standing on the floor tile, as constructed
InitBuffer ==
    /\ platforms = LevelB
    /\ player = Player(Px(TILE_SIZE), Px(2 * TILE_SIZE))
    /\ enemy = Absent /\ powerup = Absent
    /\ frames = 0
    /\ hist = JumpRecord0
    /\ hits = << >>
    /\ NoGeo
    /\ mgr = NoManager
    /\ NoExtras

\* a frame with jump held / with no key held
PressFrame == frames < MaxBufferFrames /\ JumpFrame(JumpKey)
ReleaseFrame == frames < MaxBufferFrames /\ JumpFrame(NoKeys)

NextBuffer == PressFrame \/ ReleaseFrame

SpecBuffer == InitBuffer /\ [][NextBuffer]_vars

\* in the update before the recorded one the ground probe found ground
\* again, jump had been pressed in the air at most 0.1 s before that, and
\* jump is held neither in that update nor in the recorded one
BufferedLanding ==
    /\ hist.op = "player_update" /\ hist.prev_land
    /\ hist.prev_age >= 1 /\ hist.prev_age * 10 <= FPS
    /\ ~hist.prev_keys.jump /\ ~hist.keys.jump

\* C13: a jump pressed in the air and released is honoured when the player
\* becomes grounded within 0.1 s of the press: a jump is triggered in the
\* frame that establishes grounding (or the update right after it, the first
\* to see the new grounded flag).
C13_JumpBuffer ==
    BufferedLanding => (hist.prev_trig \/ hist.trig)

(* ---- Stomping: Enemy.stomp and PlayingState.handle_player_enemy_collision ---- *)

Koopa(x, y) ==
    [shell_mode |-> FALSE, shell_timer |-> 0] @@
    [Enemy(x, y, 28, 32, "koopa") EXCEPT !.speed = Vel(40), !.patrol_distance = Px(120)]

\* Piranha.__init__: hidden in the pipe and invisible; solid is left as
\* Entity.__init__ set it
Piranha(x, y) ==
    [pop_timer |-> FZero, pop_duration |-> FTwo, hide_duration |-> FTwo,
     popped_up |-> FALSE, original_y |-> y, pipe_height |-> Px(40), visible |-> FALSE] @@
    [Enemy(x, y, 32, 32, "piranha") EXCEPT !.speed = 0, !.can_be_stomped = FALSE,
                                           !.y = y + Px(40)]

FlyingEnemy(x, y) ==
    [time_offset |-> 0, original_y |-> y] @@
    [Enemy(x, y, 24, 24, "flying") EXCEPT !.speed = Vel(60)]

\* variant: the dead enemy stays solid
die_solid(e) ==
    [e EXCEPT !.dead = TRUE, !.death_timer = Secs(10), !.vy = Vel(0 - 200)]

die(e) ==
    [e EXCEPT !.dead = TRUE, !.death_timer = Secs(10), !.vy = Vel(0 - 200), !.solid = FALSE]

\* variant: every enemy is eligible for stomping
EnemyStomp_always(e) ==
    [enemy |-> die(e), points |-> e.stomp_points]

\* Enemy.stomp: the enemy after the call and the value returned
EnemyStomp(e) ==
    IF e.can_be_stomped
    THEN [enemy |-> die(e), points |-> e.stomp_points]
    ELSE [enemy |-> e, points |-> 0]

\* variant: the stomp of a shell kicks it to the right
KoopaStomp_kick(e) ==
    IF ~e.shell_mode
    THEN [enemy |-> [e EXCEPT !.shell_mode = TRUE, !.shell_timer = Secs(50), !.h = 20,
                              !.vx = 0, !.stunned = TRUE, !.stun_timer = Secs(5)],
          points |-> e.stomp_points]
    ELSE [enemy |-> [e EXCEPT !.vx = Vel(200), !.direction = 1, !.stunned = FALSE,
                              !.stun_timer = 0],
          points |-> e.stomp_points]

\* Koopa.stomp; the list the kick branch searches for a player is empty
KoopaStomp(e) ==
    IF ~e.shell_mode
    THEN [enemy |-> [e EXCEPT !.shell_mode = TRUE, !.shell_timer = Secs(50), !.h = 20,
                              !.vx = 0, !.stunned = TRUE, !.stun_timer = Secs(5)],
          points |-> e.stomp_points]
    ELSE [enemy |-> e, points |-> e.stomp_points]

stomp(e) ==
    IF e.enemy_type = "koopa" THEN KoopaStomp(e) ELSE EnemyStomp(e)

\* value of the local variable points on the branch that never assigns it
NoPoints == 0 - 1

\* variant: a player with no vertical velocity stomps as well
handle_player_enemy_collision_geq(p, e) ==
    IF p.vy >= 0 /\ Bottom(p) <= e.y + Px(10)
    THEN LET s == stomp(e)
         IN [player |-> [p EXCEPT !.score = IF s.points > 0 THEN @ + s.points ELSE @,
                                  !.vy = Vel(0 - 300)],
             enemy |-> s.enemy, points |-> s.points, calls |-> <<"stomp">>]
    ELSE [player |-> take_damage(p), enemy |-> e, points |-> NoPoints,
          calls |-> <<"take_damage">>]

\* the player and the enemy after the handler, and the methods it called on them
handle_player_enemy_collision(p, e) ==
    IF p.vy > 0 /\ Bottom(p) <= e.y + Px(10)
    THEN LET s == stomp(e)
         IN [player |-> [p EXCEPT !.score = IF s.points > 0 THEN @ + s.points ELSE @,
                                  !.vy = Vel(0 - 300)],
             enemy |-> s.enemy, points |-> s.points, calls |-> <<"stomp">>]
    ELSE [player |-> take_damage(p), enemy |-> e, points |-> NoPoints,
          calls |-> <<"take_damage">>]

MaxChecks == 2

\* Piranha.update_ai at the end of the hidden phase
PoppedUp(e) ==
    [e EXCEPT !.popped_up = TRUE, !.pop_timer = FZero, !.visible = TRUE, !.solid = TRUE,
              !.y = e.original_y]

\* the enemies of the four kinds, around (100, 100)
StompEnemies ==
    { Goomba(Px(100), Px(100)), Koopa(Px(100), Px(100)),
      KoopaStomp(Koopa(Px(100), Px(100))).enemy,
      Piranha(Px(100), Px(60)), PoppedUp(Piranha(Px(100), Px(100))),
      FlyingEnemy(Px(100), Px(100)) }

\* how far the player's bottom edge is below the enemy's top edge
StompDepths == {Px(5), Px(10), Px(10) + 1, Px(16)}

StompVelocities == {Vel(0 - 300), 0, 1, Vel(200)}

\* a player overlapping an enemy, at every power level, invulnerable or not
InitStomp ==
    /\ platforms = << >>
    /\ enemy \in StompEnemies
    /\ \E d \in StompDepths, v \in StompVelocities, pl \in 0..1, l \in {1, 3},
          inv \in BOOLEAN :
          player = [Player(Px(92), Px(100) + d - Px(PLAYER_HEIGHT))
                      EXCEPT !.vy = v, !.power_level = pl, !.lives = l,
                             !.invulnerable = inv,
                             !.invulnerable_timer = IF inv THEN Secs(20) ELSE 0]
    /\ powerup = Absent
    /\ frames = 0
    /\ hist = [op |-> "init"]
    /\ hits = << >>
    /\ NoGeo
    /\ mgr = NoManager
    /\ NoExtras

\* the player-enemy loop of PlayingState.update for the one enemy of the level
CollisionCheck ==
    /\ frames < MaxChecks
    /\ player.type = "player" /\ player.active
    /\ enemy.type = "enemy" /\ enemy.active
    /\ collides_with(player, enemy)
    /\ \E r \in {handle_player_enemy_collision(player, enemy)} :
          /\ player' = r.player
          /\ enemy' = r.enemy
          /\ hist' = [op |-> "collision", pre |-> player, pre_enemy |-> enemy,
                      points |-> r.points, calls |-> r.calls]
    /\ frames' = frames + 1
    /\ UNCHANGED <<platforms, powerup, hits, geoA, geoB, geoRes, mgr, coin, goal, game, block>>

NextStomp == CollisionCheck

SpecStomp == InitStomp /\ [][NextStomp]_vars

IsStomp(p, e) == p.vy > 0 /\ Bottom(p) <= e.y + Px(10)

\* C14: a collision is handled as a stomp exactly when the player moves down
\* (vy > 0) with its bottom edge at most 10 px below the enemy's top edge; on a
\* stomp take_damage is not called (lives, power level and invulnerability keep
\* their values); on every other collision take_damage is called and stomp()
\* is not (the enemy is left as it was)
C14_StompClassification ==
    hist.op = "collision" =>
        /\ IsStomp(hist.pre, hist.pre_enemy) <=> hist.calls = <<"stomp">>
        /\ ~IsStomp(hist.pre, hist.pre_enemy) <=> hist.calls = <<"take_damage">>
        /\ IsStomp(hist.pre, hist.pre_enemy) =>
              /\ player.lives = hist.pre.lives
              /\ player.power_level = hist.pre.power_level
              /\ player.invulnerable = hist.pre.invulnerable
              /\ player.invulnerable_timer = hist.pre.invulnerable_timer
              /\ player.active = hist.pre.active
        /\ ~IsStomp(hist.pre, hist.pre_enemy) =>
              /\ player = take_damage(hist.pre)
              /\ enemy = hist.pre_enemy

\* a vulnerable player stomps: exactly 10 px below the enemy's top, moving down
C14_Witness ==
    /\ hist.op = "collision"
    /\ hist.calls = <<"stomp">>
    /\ ~hist.pre.invulnerable
    /\ Bottom(hist.pre) = hist.pre_enemy.y + Px(10)

\* a vulnerable player at the same depth with no vertical velocity is damaged
C14_WitnessDamage ==
    /\ hist.op = "collision"
    /\ hist.calls = <<"take_damage">>
    /\ hist.pre.vy = 0
    /\ Bottom(hist.pre) <= hist.pre_enemy.y + Px(10)
    /\ ~hist.pre.invulnerable
    /\ player # hist.pre

\* C15: stomp() on a Goomba or a flying enemy leaves it dead and returns a
\* positive number of points; stomp() on a Piranha returns 0 and leaves the
\* Piranha as it was: not dead, and solid if it is popped up
C15_StompResult ==
    (hist.op = "collision" /\ hist.calls = <<"stomp">>) =>
        /\ hist.pre_enemy.enemy_type \in {"goomba", "flying"} =>
              /\ enemy.dead
              /\ hist.points > 0
              /\ player.score = hist.pre.score + hist.points
        /\ hist.pre_enemy.enemy_type = "piranha" =>
              /\ hist.points = 0
              /\ enemy = hist.pre_enemy
              /\ ~enemy.dead
              /\ enemy.popped_up => enemy.solid
              /\ player.score = hist.pre.score

\* a live Goomba is stomped
C15_Witness ==
    /\ hist.op = "collision" /\ hist.calls = <<"stomp">>
    /\ hist.pre_enemy.enemy_type = "goomba" /\ ~hist.pre_enemy.dead
    /\ enemy.dead

\* a popped-up Piranha is stomped
C15_WitnessPiranha ==
    /\ hist.op = "collision" /\ hist.calls = <<"stomp">>
    /\ hist.pre_enemy.enemy_type = "piranha" /\ hist.pre_enemy.popped_up

\* a flying enemy is stomped
C15_WitnessFlying ==
    /\ hist.op = "collision" /\ hist.calls = <<"stomp">>
    /\ hist.pre_enemy.enemy_type = "flying" /\ enemy.dead

(* ---- Coin (src/src/collectibles.py) and GoalFlag (src/src/goal.py) ---- *)

Coin(x, y) ==
    [type |-> "collectible", x |-> x, y |-> y, w |-> 16, h |-> 16,
     vx |-> 0, vy |-> 0, active |-> TRUE, solid |-> FALSE,
     bob_time |-> 0, base_y |-> y]

\* 3 * math.sin(bob_time * 6) for bob_time = k / 60, k = 1..16, to the nearest
\* position unit (1/180 px)
BobTable == <<54, 107, 160, 210, 259, 305, 348, 387, 423, 454, 481, 503, 520, 532, 539, 540>>

BobOffset(k) == BobTable[k]

\* Coin.update: the coin and the player after it and the calls made on the
\* player; listed tells whether the player is in the list passed to update
CoinUpdate(c, p, listed) ==
    LET c1 == [c EXCEPT !.bob_time = @ + 1, !.y = c.base_y + BobOffset(c.bob_time + 1)]
    IN IF ~c.active THEN [coin |-> c, player |-> p, calls |-> << >>]
       ELSE IF listed /\ p.type = "player" /\ p.active /\ collides_with(c1, p)
       THEN [coin |-> destroy(c1), player |-> collect_coin(p), calls |-> <<"collect_coin">>]
       ELSE [coin |-> c1, player |-> p, calls |-> << >>]

\* PowerUp.update with its pickup loop
PowerUpUpdate(u, p, listed, entities) ==
    LET s == PowerUpMoveSteps(u, entities)
    IN IF listed /\ PicksUp(s.out, p)
       THEN [powerup |-> destroy(s.out), player |-> apply_to(s.out, p),
             calls |-> <<"apply_to">>]
       ELSE [powerup |-> s.out, player |-> p, calls |-> << >>]

\* GoalFlag.__init__ with the default height
GoalFlag(x, y) ==
    [type |-> "goal", x |-> x, y |-> y - Px(100), w |-> 12, h |-> 100,
     vx |-> 0, vy |-> 0, active |-> TRUE, solid |-> FALSE]

(* ---- EntityManager and the entity part of PlayingState.update ---- *)

\* the objects the names in the manager's lists refer to
Scene == [player |-> player, enemy |-> enemy, powerup |-> powerup, coin |-> coin,
          goal |-> goal]

EntityNames == {"player", "enemy"}

\* Entity.visible: set by Entity.__init__, cleared only by the Piranha
Visible(e) == IF "visible" \in DOMAIN e THEN e.visible ELSE TRUE

\* list.remove: the first occurrence goes
RemoveFirst(s, n) ==
    IF \E i \in 1..Len(s) : s[i] = n
    THEN LET i == CHOOSE k \in 1..Len(s) : s[k] = n /\ \A j \in 1..(k - 1) : s[j] # n
         IN SubSeq(s, 1, i - 1) \o SubSeq(s, i + 1, Len(s))
    ELSE s

RECURSIVE RemoveAll(_, _)
RemoveAll(s, rs) ==
    IF rs = << >> THEN s ELSE RemoveAll(RemoveFirst(s, Head(rs)), Tail(rs))

\* variant: an added entity is live at once
add_entity_now(m, n) == [m EXCEPT !.entities = Append(@, n)]

add_entity(m, n) == [m EXCEPT !.entities_to_add = Append(@, n)]

get_entities_by_type(m, sc, entity_type) ==
    SelectSeq(m.entities, LAMBDA n : sc[n].type = entity_type /\ sc[n].active)

\* the entities EntityManager.render draws
RenderList(m, sc) == SelectSeq(m.entities, LAMBDA n : Visible(sc[n]))

InSeq(s, n) == \E i \in 1..Len(s) : s[i] = n

\* entity.update(dt, self.entities) for the entity of that name; names is
\* self.entities without the platforms, entities the platforms
UpdateEntity(sc, n, names, entities) ==
    IF n = "player"
    THEN [sc EXCEPT !.player = PlayerUpdateSteps(sc.player, NoKeys, entities).out]
    ELSE IF n = "enemy"
    THEN [sc EXCEPT !.enemy = EnemyUpdateSteps(sc.enemy, entities).out]
    ELSE IF n = "powerup"
    THEN Let(PowerUpUpdate(sc.powerup, sc.player, InSeq(names, "player"), entities),
             LAMBDA r : [sc EXCEPT !.powerup = r.powerup, !.player = r.player])
    ELSE IF n = "coin"
    THEN Let(CoinUpdate(sc.coin, sc.player, InSeq(names, "player")),
             LAMBDA r : [sc EXCEPT !.coin = r.coin, !.player = r.player])
    ELSE sc

\* variant: the update loop runs over the list from its end
RECURSIVE UpdateAll_reversed(_, _, _, _)
UpdateAll_reversed(r, names, i, entities) ==
    IF i > Len(names) THEN r
    ELSE Let([scene |-> UpdateEntity(r.scene, names[Len(names) + 1 - i], names, entities),
              log |-> Append(r.log, names[Len(names) + 1 - i])],
             LAMBDA q : UpdateAll_reversed(q, names, i + 1, entities))

\* the update loop of EntityManager.update from position i on: the scene so
\* far and the update calls made so far, in the order they were made
RECURSIVE UpdateAll(_, _, _, _)
UpdateAll(r, names, i, entities) ==
    IF i > Len(names) THEN r
    ELSE Let([scene |-> UpdateEntity(r.scene, names[i], names, entities),
              log |-> Append(r.log, names[i])],
             LAMBDA q : UpdateAll(q, names, i + 1, entities))

\* variant: inactive entities are kept in the live list
manager_update_keep(m, sc, entities) ==
    Let(RemoveAll(m.entities \o m.entities_to_add, m.entities_to_remove),
        LAMBDA live :
            Let(UpdateAll([scene |-> sc, log |-> << >>], live, 1, entities),
                LAMBDA r : [mgr |-> [entities |-> live, entities_to_add |-> << >>,
                                     entities_to_remove |-> << >>],
                            scene |-> r.scene,
                            updated |-> r.log]))

\* EntityManager.update: the manager and the scene after it, and the entities
\* whose update it called
manager_update(m, sc, entities) ==
    Let(SelectSeq(RemoveAll(m.entities \o m.entities_to_add, m.entities_to_remove),
                  LAMBDA n : sc[n].active),
        LAMBDA live :
            Let(UpdateAll([scene |-> sc, log |-> << >>], live, 1, entities),
                LAMBDA r : [mgr |-> [entities |-> live, entities_to_add |-> << >>,
                                     entities_to_remove |-> << >>],
                            scene |-> r.scene,
                            updated |-> r.log]))

\* the player-enemy loop of PlayingState.update over the list it fetched
RECURSIVE CollisionLoop(_, _, _, _)
CollisionLoop(sc, enemies, i, calls) ==
    IF i > Len(enemies) THEN [scene |-> sc, calls |-> calls]
    ELSE IF collides_with(sc.player, sc[enemies[i]])
         THEN Let(handle_player_enemy_collision(sc.player, sc[enemies[i]]),
                  LAMBDA r : CollisionLoop([sc EXCEPT !.player = r.player,
                                                      ![enemies[i]] = r.enemy],
                                           enemies, i + 1, calls \o r.calls))
         ELSE CollisionLoop(sc, enemies, i + 1, calls)

MaxEngineFrames == 68
MaxAddFrames == 4

\* a player falling onto a walking Goomba, or standing beside it
EnginePlayers ==
    { Falling(Player(Px(36), Px(30))), Falling(Player(Px(36), Px(36))),
      Player(Px(36), Px(50)), Player(Px(16), Px(64)) }

EngineEnemies == { Goomba(Px(40), Px(72)), Goomba(Px(60), Px(72)) }

EngineRecord0 == [op |-> "init", calls |-> << >>, updated |-> << >>, dead_for |-> 0]

InitEngine ==
    /\ platforms = LevelA
    /\ player \in EnginePlayers
    /\ enemy \in EngineEnemies
    /\ powerup = Absent
    /\ frames = 0
    /\ hist = EngineRecord0
    /\ hits = << >>
    /\ NoGeo
    /\ mgr = NoManager
    /\ NoExtras

\* entity_manager.add_entity on an entity that is not in the manager
AddEntity ==
    /\ frames < MaxAddFrames
    /\ \E n \in EntityNames :
          /\ Scene[n].active
          /\ \A i \in 1..Len(mgr.entities) : mgr.entities[i] # n
          /\ \A i \in 1..Len(mgr.entities_to_add) : mgr.entities_to_add[i] # n
          /\ mgr' = add_entity(mgr, n)
          /\ hist' = [op |-> "add_entity", name |-> n, pre_mgr |-> mgr, calls |-> << >>,
                      updated |-> << >>, dead_for |-> hist.dead_for]
    /\ UNCHANGED <<platforms, player, enemy, powerup, frames, hits, geoA, geoB, geoRes, coin, goal, game, block>>

\* PlayingState.update with the intro delay over and time left on the clock:
\* entity_manager.update(dt), then the player-enemy loop; dead_for counts the
\* updates the enemy has entered dead
EngineUpdate ==
    /\ frames < MaxEngineFrames
    /\ player.active
    /\ \E u \in {manager_update(mgr, Scene, platforms)} :
       \E r \in {CollisionLoop(u.scene, get_entities_by_type(u.mgr, u.scene, "enemy"),
                               1, << >>)} :
          /\ mgr' = u.mgr
          /\ player' = r.scene.player
          /\ enemy' = r.scene.enemy
          /\ hist' = [op |-> "engine_update", pre |-> player, pre_enemy |-> enemy,
                      pre_mgr |-> mgr, updated |-> u.updated, calls |-> r.calls,
                      dead_for |-> IF enemy.dead THEN hist.dead_for + 1 ELSE 0]
    /\ frames' = frames + 1
    /\ UNCHANGED <<platforms, powerup, hits, geoA, geoB, geoRes, coin, goal, game, block>>

NextEngine == AddEntity \/ EngineUpdate

SpecEngine == InitEngine /\ [][NextEngine]_vars

\* the enemy is in the manager's live list
Live(n) == \E i \in 1..Len(mgr.entities) : mgr.entities[i] = n

\* C16: a dead enemy is non-solid, does not overlap the player as a collider and
\* causes no call of the collision handler; it is active for the first second
\* after its death and inactive once 1.0 s (FPS updates) has been simulated;
\* an update that starts with the enemy dead leaves it dead, one that starts
\* with it inactive leaves it inactive and out of the live list
C16_DeathTerminal ==
    /\ enemy.dead =>
          /\ ~enemy.solid
          /\ ~collides_with(player, enemy)
          /\ hist.dead_for >= FPS => ~enemy.active
          /\ hist.dead_for < FPS => enemy.active
    /\ (hist.op = "engine_update" /\ hist.pre_enemy.dead) =>
          /\ enemy.dead
          /\ hist.calls = << >>
          /\ player.score = hist.pre.score
    /\ (hist.op = "engine_update" /\ ~hist.pre_enemy.active) =>
          /\ ~enemy.active
          /\ ~Live("enemy")

\* the enemy has been dead for a second, is inactive and has left the live list
C16_Witness ==
    /\ hist.op = "engine_update"
    /\ enemy.dead /\ ~enemy.active /\ hist.dead_for > FPS
    /\ ~Live("enemy")

\* a dead enemy whose rectangle overlaps the player's, and no handler call
C16_WitnessOverlap ==
    /\ hist.op = "engine_update" /\ hist.pre_enemy.dead /\ enemy.active
    /\ Colliderect(Rect(player), Rect(enemy))
    /\ hist.calls = << >>

\* the entity of that name as it was when the last PlayingState.update began
PreEntity(n) == IF n = "player" THEN hist.pre ELSE hist.pre_enemy

\* C20: add_entity(e) leaves the live list as it was and puts e on the pending
\* list; a pending entity is not rendered and not returned by
\* get_entities_by_type, and every update call is made on an entity of the
\* live list; the next EntityManager.update empties the pending list, makes e
\* live, updates it and from then on renders and returns it; a live active
\* entity is still live after the following update
C20_DeferredAddition ==
    /\ hist.op = "add_entity" =>
          /\ mgr.entities = hist.pre_mgr.entities
          /\ mgr.entities_to_add = Append(hist.pre_mgr.entities_to_add, hist.name)
          /\ ~Live(hist.name)
    /\ \A n \in EntityNames :
          (InSeq(mgr.entities_to_add, n) /\ ~Live(n)) =>
              /\ ~InSeq(RenderList(mgr, Scene), n)
              /\ ~InSeq(get_entities_by_type(mgr, Scene, Scene[n].type), n)
    /\ hist.op = "engine_update" =>
          /\ mgr.entities_to_add = << >>
          /\ \A n \in EntityNames :
                /\ InSeq(hist.updated, n) => Live(n)
                /\ InSeq(hist.pre_mgr.entities_to_add, n) =>
                      /\ Live(n)
                      /\ InSeq(hist.updated, n)
                      /\ InSeq(RenderList(mgr, Scene), n)
                      /\ Scene[n].active =>
                            InSeq(get_entities_by_type(mgr, Scene, Scene[n].type), n)
                /\ (InSeq(hist.pre_mgr.entities, n) /\ PreEntity(n).active) => Live(n)

\* an enemy added after the first update is pending while the player is live
C20_Witness ==
    /\ hist.op = "add_entity" /\ hist.name = "enemy"
    /\ frames > 0
    /\ Live("player")
    /\ InSeq(mgr.entities_to_add, "enemy")

\* the update that drains the pending enemy
C20_WitnessDrain ==
    /\ hist.op = "engine_update"
    /\ InSeq(hist.pre_mgr.entities_to_add, "enemy")
    /\ Live("enemy") /\ InSeq(hist.updated, "enemy")

(* ---- Patrol of a Goomba (Goomba.update_ai) ---- *)

\* a floor of ground tiles tx = first..last in row 3
RECURSIVE Floor(_, _)
Floor(first, last) ==
    IF first > last THEN << >> ELSE <<TilePlatform(first, 3)>> \o Floor(first + 1, last)

\* Scenario D: a floor wider than the patrol range around x = 300
LevelD == Floor(5, 13)

\* a floor whose left end is 90 px left of the spawn point x = 122
LevelC == Floor(1, 6)

MaxPatrolFrames == 490

Beyond(e) == Abs(e.x - e.start_x) > e.patrol_distance

PatrolRecord0 == [op |-> "init", was_beyond |-> FALSE]

\* a Goomba put on the floor, or 8 px above it as create_test_level does
InitPatrol ==
    /\ \/ platforms = LevelD /\ enemy \in {Goomba(Px(300), Px(72)), Goomba(Px(300), Px(64))}
       \/ platforms = LevelC /\ enemy = Goomba(Px(122), Px(72))
    /\ player = Absent /\ powerup = Absent
    /\ frames = 0
    /\ hist = PatrolRecord0
    /\ hits = << >>
    /\ NoGeo
    /\ mgr = NoManager
    /\ NoExtras

\* Enemy.update; was_beyond tells whether the update before this one began
\* beyond the patrol distance
PatrolFrame ==
    /\ frames < MaxPatrolFrames
    /\ enemy.active
    /\ \E s \in {EnemyUpdateSteps(enemy, platforms)} :
          /\ enemy' = s.out
          /\ hist' = [op |-> "enemy_update", pre |-> enemy,
                      was_beyond |-> hist.op = "enemy_update" /\ Beyond(hist.pre)]
    /\ frames' = frames + 1
    /\ UNCHANGED <<platforms, player, powerup, hits, geoA, geoB, geoRes, mgr, coin, goal, game, block>>

NextPatrol == PatrolFrame

SpecPatrol == InitPatrol /\ [][NextPatrol]_vars

\* the update is the first one to begin beyond the patrol distance
Crossing == hist.op = "enemy_update" /\ Beyond(hist.pre) /\ ~hist.was_beyond

TowardStart(e) == (e.start_x - e.x) * e.direction > 0

\* C17: the update in which a Goomba is first found beyond patrol_distance
\* inverts its direction, so that it heads back to start_x; an update that
\* finds it still beyond patrol_distance does not invert the direction again
C17_PatrolReversal ==
    /\ Crossing =>
          /\ enemy.direction = 0 - hist.pre.direction
          /\ TowardStart(enemy)
    /\ (hist.op = "enemy_update" /\ Beyond(hist.pre) /\ hist.was_beyond) =>
          enemy.direction = hist.pre.direction

\* a crossing on the flat floor: the Goomba turns round at x = 219.5
C17_Witness ==
    /\ Crossing
    /\ platforms = LevelD
    /\ enemy.direction = 0 - hist.pre.direction
    /\ TowardStart(enemy)

\* the second crossing of the same Goomba, on the other side of start_x
C17_WitnessSecond ==
    /\ Crossing
    /\ platforms = LevelD
    /\ hist.pre.x > hist.pre.start_x
    /\ enemy.direction = 0 - 1

(* ---- Pop-up cycle of a Piranha (Piranha.update_ai) ---- *)

MaxPiranhaFrames == 250

\* a Piranha whose hidden position rests on the floor of LevelC, one that
\* hangs over its left end, and one with no floor below
InitPiranha ==
    /\ \/ platforms = LevelC /\ enemy \in {Piranha(Px(100), Px(24)), Piranha(Px(20), Px(24))}
       \/ platforms = << >> /\ enemy = Piranha(Px(100), Px(24))
    /\ player = Absent /\ powerup = Absent
    /\ frames = 0
    /\ hist = [op |-> "init"]
    /\ hits = << >>
    /\ NoGeo
    /\ mgr = NoManager
    /\ NoExtras

\* Enemy.update with dt = 1/60; frames / FPS is the simulated time
PiranhaFrame ==
    /\ frames < MaxPiranhaFrames
    /\ enemy.active
    /\ \E s \in {EnemyUpdateSteps(enemy, platforms)} :
          /\ enemy' = s.out
          /\ hist' = [op |-> "enemy_update", pre |-> enemy]
    /\ frames' = frames + 1
    /\ UNCHANGED <<platforms, player, powerup, hits, geoA, geoB, geoRes, mgr, coin, goal, game, block>>

NextPiranha == PiranhaFrame

SpecPiranha == InitPiranha /\ [][NextPiranha]_vars

\* C18: a Piranha that starts hidden is not visible before 2.0 s, is visible
\* and solid from 2.0 s on, and is hidden again from 4.0 s on
C18_PopUpTiming ==
    /\ frames < 2 * FPS => ~enemy.visible
    /\ (frames >= 2 * FPS /\ frames < 4 * FPS) => (enemy.visible /\ enemy.solid)
    /\ frames = 4 * FPS => ~enemy.visible

\* the Piranha has popped up: the update after 2.0 s made it visible
C18_Witness ==
    /\ frames = 2 * FPS + 1
    /\ ~hist.pre.visible
    /\ enemy.visible /\ enemy.solid /\ enemy.popped_up

\* C19: popped_up, visible and solid of a live Piranha agree in every state
C19_PhaseInvariant ==
    ~enemy.dead => (enemy.popped_up = enemy.visible /\ enemy.visible = enemy.solid)

\* the Piranha has gone through a popped-up phase and is hidden and non-solid
C19_Witness ==
    /\ hist.op = "enemy_update" /\ hist.pre.popped_up
    /\ ~enemy.popped_up /\ ~enemy.visible /\ ~enemy.solid

\* C21: an entity that is inactive when EntityManager.update begins is out of
\* the live list after that call and is not updated by it; update is only
\* ever called on entities that were active when the call began; an inactive
\* entity collides with nothing
C21_InactivePurged ==
    /\ hist.op = "engine_update" =>
          \A n \in EntityNames :
              /\ ~PreEntity(n).active => (~Live(n) /\ ~InSeq(hist.updated, n))
              /\ InSeq(hist.updated, n) => PreEntity(n).active
    /\ \A n \in EntityNames :
          ~Scene[n].active =>
              /\ ~collides_with(player, Scene[n])
              /\ ~collides_with(Scene[n], player)
              /\ ~InSeq(get_entities_by_type(mgr, Scene, Scene[n].type), n)

\* the update that purges the enemy: live and inactive before it, gone after
C21_Witness ==
    /\ hist.op = "engine_update"
    /\ InSeq(hist.pre_mgr.entities, "enemy")
    /\ ~hist.pre_enemy.active
    /\ ~Live("enemy")

(* ---- PlayingState.update over a scene with every kind of entity ---- *)

TIME_LIMIT == 400

\* the fields PlayingState.enter sets, after the frames of the intro delay
\* (1.0 s) that leave the given number of them; times are kept in frames
Playing(intro) ==
    [state |-> "playing", time_remaining |-> TIME_LIMIT * FPS - (Secs(10) - intro),
     level_complete |-> FALSE, level_complete_timer |-> 0, level_intro_timer |-> intro]

\* the clock: at time-out the player takes damage
ClockStep(g, sc) ==
    IF g.time_remaining - 1 <= 0
    THEN [game |-> [g EXCEPT !.time_remaining = 0],
          scene |-> [sc EXCEPT !.player = take_damage(sc.player)]]
    ELSE [game |-> [g EXCEPT !.time_remaining = @ - 1], scene |-> sc]

\* the goal loop: some live goal entity collides with the player
GoalReached(m, sc) ==
    \E i \in 1..Len(m.entities) :
        sc[m.entities[i]].type = "goal" /\ collides_with(sc.player, sc[m.entities[i]])

\* the level-completion countdown with its time bonus
CompletionStep(g, sc) ==
    IF g.level_complete /\ g.level_complete_timer > 0
    THEN IF g.level_complete_timer - 1 <= 0
         THEN [game |-> [g EXCEPT !.level_complete_timer = @ - 1, !.state = "menu"],
               scene |-> [sc EXCEPT !.player.score =
                                       @ + (g.time_remaining \div FPS) * 50]]
         ELSE [game |-> [g EXCEPT !.level_complete_timer = @ - 1], scene |-> sc]
    ELSE [game |-> g, scene |-> sc]

\* PlayingState.update from the intro delay on
PlayingAfterClock(c, m, entities) ==
    Let(IF c.game.level_intro_timer > 0
        THEN [game |-> [c.game EXCEPT !.level_intro_timer = @ - 1], mgr |-> m,
              scene |-> c.scene, updated |-> << >>]
        ELSE [game |-> c.game] @@ manager_update(m, c.scene, entities),
    LAMBDA u :
    Let(IF u.game.level_intro_timer <= 0
        THEN CollisionLoop(u.scene, get_entities_by_type(u.mgr, u.scene, "enemy"),
                           1, << >>)
        ELSE [scene |-> u.scene, calls |-> << >>],
    LAMBDA r :
    Let(IF u.game.level_intro_timer <= 0 /\ GoalReached(u.mgr, r.scene)
        THEN [u.game EXCEPT !.level_complete = TRUE, !.level_complete_timer = Secs(20)]
        ELSE u.game,
    LAMBDA g :
    Let(CompletionStep(g, r.scene),
    LAMBDA f : [game |-> f.game, mgr |-> u.mgr, scene |-> f.scene,
                updated |-> u.updated, calls |-> r.calls]))))

\* variant: the frame runs whether the player is active or not
playing_update_always(g, m, sc, entities) ==
    PlayingAfterClock(ClockStep(g, sc), m, entities)

\* PlayingState.update: the state's fields, the manager and the scene after
\* it, the update calls the manager made and the calls of the collision loop
playing_update(g, m, sc, entities) ==
    IF ~sc.player.active
    THEN [game |-> [g EXCEPT !.state = "game_over"], mgr |-> m, scene |-> sc,
          updated |-> << >>, calls |-> << >>]
    ELSE PlayingAfterClock(ClockStep(g, sc), m, entities)

MaxSceneFrames == 5
MaxSceneAdds == 3

SceneNames == {"player", "enemy", "powerup", "coin", "goal"}

SceneRecord0 == [op |-> "init", order |-> << >>, updated |-> << >>, calls |-> << >>]

\* the player standing on the floor of LevelA at (32, 64); a Goomba walking
\* towards it; a power-up, a coin and the goal flag inside the player's box
InitScene ==
    /\ platforms = LevelA
    /\ player = Player(Px(TILE_SIZE), Px(2 * TILE_SIZE))
    /\ enemy = Goomba(Px(70), Px(72))
    /\ powerup \in {Mushroom(Px(36), Px(70)), FireFlower(Px(36), Px(70))}
    /\ coin = Coin(Px(40), Px(70))
    /\ goal = GoalFlag(Px(40), Px(96))
    /\ frames = 0
    /\ hist = SceneRecord0
    /\ hits = << >>
    /\ NoGeo
    /\ mgr = NoManager
    /\ game \in {Playing(0), Playing(2)}
    /\ block = Absent

\* entity_manager.add_entity as PlayingState.enter calls it, in any order
SceneAdd ==
    /\ frames < MaxSceneAdds
    /\ game.state = "playing"
    /\ \E n \in SceneNames :
          /\ Scene[n].active
          /\ ~InSeq(mgr.entities, n) /\ ~InSeq(mgr.entities_to_add, n)
          /\ ~InSeq(hist.order, n)
          /\ mgr' = add_entity(mgr, n)
          /\ hist' = [op |-> "add_entity", name |-> n, order |-> Append(hist.order, n),
                      pre_mgr |-> mgr, updated |-> << >>, calls |-> << >>]
    /\ UNCHANGED <<platforms, player, enemy, powerup, frames, hits, geoA, geoB, geoRes,
                   coin, goal, game, block>>

\* one frame of the PLAYING state
SceneUpdate ==
    /\ frames < MaxSceneFrames
    /\ game.state = "playing"
    /\ \E r \in {playing_update(game, mgr, Scene, platforms)} :
          /\ game' = r.game
          /\ mgr' = r.mgr
          /\ player' = r.scene.player
          /\ enemy' = r.scene.enemy
          /\ powerup' = r.scene.powerup
          /\ coin' = r.scene.coin
          /\ goal' = r.scene.goal
          /\ hist' = [op |-> "playing_update", order |-> hist.order, pre_scene |-> Scene,
                      pre_mgr |-> mgr, pre_game |-> game, updated |-> r.updated,
                      calls |-> r.calls]
    /\ frames' = frames + 1
    /\ UNCHANGED <<platforms, hits, geoA, geoB, geoRes, block>>

NextScene == SceneAdd \/ SceneUpdate

SpecScene == InitScene /\ [][NextScene]_vars

\* position of a name in a list, 0 if it is not there
Pos(s, n) == IF InSeq(s, n) THEN CHOOSE i \in 1..Len(s) : s[i] = n ELSE 0

\* the names of s are names of t, in the order they have in t
InOrderOf(s, t) ==
    /\ \A i \in 1..Len(s) : InSeq(t, s[i])
    /\ \A i, j \in 1..Len(s) : i < j => Pos(t, s[i]) < Pos(t, s[j])

C23_CoinPickup ==
    (/\ hist.op = "playing_update"
     /\ InSeq(hist.updated, "coin")
     /\ hist.pre_scene.coin.active
     /\ hist.pre_scene.player.active /\ player.active
     /\ Colliderect(Rect(coin), Rect(hist.pre_scene.player))
     /\ Colliderect(Rect(coin), Rect(player)))
    => /\ ~coin.active
       /\ player.coins = hist.pre_scene.player.coins + 1

\* the coin was updated inside the player's box and is still there, active,
\* and the player has collected nothing
C23_Witness ==
    /\ hist.op = "playing_update"
    /\ InSeq(hist.updated, "coin") /\ InSeq(hist.updated, "player")
    /\ Colliderect(Rect(coin), Rect(player))
    /\ coin.active /\ coin.bob_time > 0
    /\ player.coins = 0


\* C24: a frame in which an active power-up is updated and ends its move with
\* its box over the box of the active player (before and after the player's
\* own update) leaves the power-up inactive and the player with the effect of
\* one apply_to
C24_PowerUpPickup ==
    (/\ hist.op = "playing_update"
     /\ InSeq(hist.updated, "powerup")
     /\ hist.pre_scene.powerup.active
     /\ hist.pre_scene.player.active /\ player.active
     /\ Colliderect(Rect(powerup), Rect(hist.pre_scene.player))
     /\ Colliderect(Rect(powerup), Rect(player)))
    => /\ ~powerup.active
       /\ player.power_level = apply_to(powerup, hist.pre_scene.player).power_level
       /\ player.score = apply_to(powerup, hist.pre_scene.player).score

\* the power-up was updated over the small player's box and is still active,
\* and the player is still small
C24_Witness ==
    /\ hist.op = "playing_update"
    /\ InSeq(hist.updated, "powerup") /\ InSeq(hist.updated, "player")
    /\ Colliderect(Rect(powerup), Rect(player))
    /\ powerup.active /\ powerup # hist.pre_scene.powerup
    /\ player.power_level = 0

\* C25: a frame of the PLAYING state after the intro delay in which the goal
\* is in the live list and the active player's box overlaps the goal's box
\* sets level_complete
C25_GoalTrigger ==
    (/\ hist.op = "playing_update"
     /\ hist.pre_game.level_intro_timer = 0
     /\ hist.pre_scene.player.active /\ player.active
     /\ InSeq(mgr.entities, "goal") /\ goal.active
     /\ Colliderect(Rect(player), Rect(goal)))
    => game.level_complete

\* such a frame has been played, and the level is not complete
C25_Witness ==
    /\ hist.op = "playing_update"
    /\ hist.pre_game.level_intro_timer = 0
    /\ InSeq(hist.updated, "goal") /\ InSeq(hist.updated, "player")
    /\ player.active /\ goal.active
    /\ Colliderect(Rect(player), Rect(goal))
    /\ ~game.level_complete /\ game.state = "playing"


(* ---- The ground probe called again on an unmoved entity ---- *)

MaxProbeFrames == 2
MaxProbes == 2

\* Entity.set_position
set_position(e, x, y) == [e EXCEPT !.x = x, !.y = y]

\* places an entity is put: on the floor, a pixel or half a pixel above or
\* below its top, past its right end, in the air
ProbePlaces ==
    {<<x, y>> : x \in {Px(32), Px(96) + 90, Px(128)},
                y \in {Px(64), Px(63), Px(63) + 90, Px(64) + 90, Px(65), Px(20)}}

InitProbe ==
    /\ platforms = LevelA
    /\ \/ player \in PlayerSpawns /\ enemy = Absent
       \/ player = Absent /\ enemy \in EnemySpawns
    /\ powerup = Absent
    /\ frames = 0
    /\ hist = [op |-> "init", n |-> 0]
    /\ hits = << >>
    /\ NoGeo
    /\ mgr = NoManager
    /\ NoExtras

\* the entity is moved: a whole update, or set_position
ProbeMove ==
    /\ frames < MaxProbeFrames
    /\ \/ /\ player.type = "player"
          /\ \E keys \in {NoKeys, [NoKeys EXCEPT !.jump = TRUE],
                          [NoKeys EXCEPT !.right = TRUE]} :
             \E s \in {PlayerUpdateSteps(player, keys, platforms)} : player' = s.out
          /\ UNCHANGED enemy
       \/ /\ player.type = "player"
          /\ \E q \in ProbePlaces : player' = set_position(player, q[1], q[2])
          /\ UNCHANGED enemy
       \/ /\ enemy.type = "enemy"
          /\ \E s \in {EnemyUpdateSteps(enemy, platforms)} : enemy' = s.out
          /\ UNCHANGED player
       \/ /\ enemy.type = "enemy"
          /\ \E q \in ProbePlaces : enemy' = set_position(enemy, q[1], q[2])
          /\ UNCHANGED player
    /\ hist' = [op |-> "move", n |-> 0]
    /\ frames' = frames + 1
    /\ UNCHANGED <<platforms, powerup, hits, geoA, geoB, geoRes, mgr, coin, goal, game, block>>

\* Player.check_ground_collision, the n-th call in a row
ProbePlayer ==
    /\ player.type = "player"
    /\ hist.n < MaxProbes
    /\ player' = check_ground_collision(player, platforms)
    /\ hist' = [op |-> "probe", n |-> hist.n + 1, pre |-> player,
                pre0 |-> IF hist.n = 0 THEN player ELSE hist.pre0]
    /\ UNCHANGED <<platforms, enemy, powerup, frames, hits, geoA, geoB, geoRes, mgr,
                   coin, goal, game, block>>

\* Enemy.check_ground_collision, the n-th call in a row
ProbeEnemy ==
    /\ enemy.type = "enemy"
    /\ hist.n < MaxProbes
    /\ enemy' = enemy_check_ground_collision(enemy, platforms)
    /\ hist' = [op |-> "probe", n |-> hist.n + 1, pre |-> enemy,
                pre0 |-> IF hist.n = 0 THEN enemy ELSE hist.pre0]
    /\ UNCHANGED <<platforms, player, powerup, frames, hits, geoA, geoB, geoRes, mgr,
                   coin, goal, game, block>>

NextProbe == ProbeMove \/ ProbePlayer \/ ProbeEnemy

SpecProbe == InitProbe /\ [][NextProbe]_vars

\* C26: a ground probe called right after another one, the entity and the
\* platforms unmoved, leaves grounded as the first call set it, and for the
\* player can_jump and coyote_time too
C26_ProbeIdempotent ==
    (hist.op = "probe" /\ hist.n >= 2) =>
        /\ player.type = "player" =>
              /\ player.grounded = hist.pre.grounded
              /\ player.can_jump = hist.pre.can_jump
              /\ player.coyote_time = hist.pre.coyote_time
        /\ enemy.type = "enemy" => enemy.grounded = hist.pre.grounded

\* a second probe after a first one that changed grounded: a player put in
\* the air with time left on the coyote timer, an enemy put on the floor
C26_Witness ==
    /\ hist.op = "probe" /\ hist.n = 2
    /\ player.type = "player"
    /\ hist.pre0.grounded /\ ~player.grounded
    /\ player.coyote_time > 0

C26_WitnessEnemy ==
    /\ hist.op = "probe" /\ hist.n = 2
    /\ enemy.type = "enemy"
    /\ ~hist.pre0.grounded /\ enemy.grounded


(* ---- Horizontal velocity of the player, frame after frame ---- *)

MaxVelocityFrames == 3

\* velocities the player has after some frames of input: update_physics adds
\* or subtracts acceleration * dt (50) or friction * dt (40) or snaps to the
\* target or to 0, so every multiple of 10 between the run speeds occurs
VelocityStarts == {0, 30, 0 - 20, 570, 0 - 590, 1180, 0 - 1200}

InitVelocity ==
    /\ platforms = LevelA
    /\ \E v \in VelocityStarts :
          player = [Player(Px(TILE_SIZE), Px(2 * TILE_SIZE)) EXCEPT !.vx = v]
    /\ enemy = Absent
    /\ powerup = Absent
    /\ frames = 0
    /\ hist = [op |-> "init"]
    /\ hits = << >>
    /\ NoGeo
    /\ mgr = NoManager
    /\ NoExtras

\* one call of Player.update_physics with the given key snapshot
VelocityFrame ==
    /\ frames < MaxVelocityFrames
    /\ \E keys \in KeySnapshots :
          /\ player' = update_physics(player, keys)
          /\ hist' = [op |-> "update_physics", pre |-> player, keys |-> keys]
    /\ frames' = frames + 1
    /\ UNCHANGED <<platforms, enemy, powerup, hits, geoA, geoB, geoRes, mgr, coin, goal,
                   game, block>>

NextVelocity == VelocityFrame

SpecVelocity == InitVelocity /\ [][NextVelocity]_vars

\* the target velocity of the snapshot: +-max_speed, doubled under run
TargetVelocity(keys) ==
    (IF keys.run THEN 2 ELSE 1) *
    (IF keys.left THEN 0 - Vel(PLAYER_SPEED) ELSE IF keys.right THEN Vel(PLAYER_SPEED) ELSE 0)

\* v lies between a and b, ends included
Between(v, a, b) == (a <= v /\ v <= b) \/ (b <= v /\ v <= a)

\* C27: with a non-zero target the new vx lies between the old vx and the
\* target and differs from the old vx by at most acceleration * dt; with
\* target 0 it lies between the old vx and 0 and has not changed sign
C27_NoOvershoot ==
    hist.op = "update_physics" =>
        LET old == hist.pre.vx
            target == TargetVelocity(hist.keys)
        IN IF target # 0
           THEN /\ Between(player.vx, old, target)
                /\ Abs(player.vx - old) <= PerFrame(PLAYER_ACCELERATION)
           ELSE /\ Between(player.vx, old, 0)
                /\ ~(old > 0 /\ player.vx < 0)
                /\ ~(old < 0 /\ player.vx > 0)

\* the clamp acted: less than one step short of a non-zero target
C27_Witness ==
    /\ hist.op = "update_physics"
    /\ TargetVelocity(hist.keys) # 0
    /\ hist.pre.vx # TargetVelocity(hist.keys)
    /\ Abs(TargetVelocity(hist.keys) - hist.pre.vx) < PerFrame(PLAYER_ACCELERATION)
    /\ player.vx = TargetVelocity(hist.keys)

\* friction stopped a velocity of less than one step at 0
C27_WitnessFriction ==
    /\ hist.op = "update_physics"
    /\ TargetVelocity(hist.keys) = 0
    /\ hist.pre.vx # 0 /\ player.vx = 0


\* C28: after a frame's update, every entity EntityManager.render draws is
\* active as well as visible
C28_RenderGate ==
    \A i \in 1..Len(RenderList(mgr, Scene)) :
        /\ Scene[RenderList(mgr, Scene)[i]].active
        /\ Visible(Scene[RenderList(mgr, Scene)[i]])

\* the update of this frame deactivated the enemy at the end of its death
\* timer, and the enemy is in the list that is drawn
C28_Witness ==
    /\ hist.op = "engine_update"
    /\ hist.pre_enemy.active /\ hist.pre_enemy.dead
    /\ ~enemy.active
    /\ InSeq(RenderList(mgr, Scene), "enemy")


(* ---- Jumps, and the ground between them ---- *)

MaxJumpFrames == 7

RightKey == [NoKeys EXCEPT !.right = TRUE]
RightJumpKeys == [NoKeys EXCEPT !.right = TRUE, !.jump = TRUE]

\* update_physics triggers a jump in the update that starts with player p
\* and that key snapshot: the held key fills the buffer, so the test is on
\* the eligibility and the coyote timer
JumpCondition(p, keys) == keys.jump /\ (p.can_jump \/ p.coyote_time > 0)

\* the frame record before the first update: no jump has been triggered yet
GroundRecord0 ==
    [op |-> "init", keys |-> NoKeys, trig |-> FALSE, jumps |-> 0,
     since |-> TRUE, since_before |-> TRUE]

\* the player as constructed, standing on the floor of LevelA: against the
\* stone tile, or one tile to its left; or under the ceiling tile of LevelB
InitJump ==
    /\ \/ platforms = LevelA /\ player \in {Player(Px(64), Px(64)), Player(Px(32), Px(64))}
       \/ platforms = LevelB /\ player = Player(Px(TILE_SIZE), Px(2 * TILE_SIZE))
    /\ enemy = Absent /\ powerup = Absent
    /\ frames = 0
    /\ hist = GroundRecord0
    /\ hits = << >>
    /\ NoGeo
    /\ mgr = NoManager
    /\ NoExtras

\* one Player.update; the frame record also keeps
\*   trig    a jump was triggered
\*   jumps   the number of jumps triggered so far
\*   since   an update has ended with grounded set since the last jump was
\*           triggered (the update that triggered it included)
\* and the value of since before this update as since_before
GroundFrame(keys) ==
    /\ frames < MaxJumpFrames
    /\ player.type = "player"
    /\ \E s \in {PlayerUpdateSteps(player, keys, platforms)} :
       \E trig \in {player.active /\ JumpCondition(player, keys)} :
       \E set \in {s.out.grounded} :
          /\ player' = s.out
          /\ hist' = [op |-> "player_update", pre |-> player, keys |-> keys,
                      trig |-> trig,
                      jumps |-> IF trig THEN hist.jumps + 1 ELSE hist.jumps,
                      since_before |-> hist.since,
                      since |-> IF trig THEN set ELSE hist.since \/ set]
    /\ frames' = frames + 1
    /\ UNCHANGED <<platforms, enemy, powerup, hits, geoA, geoB, geoRes, mgr, coin, goal, game, block>>

JumpHeld == GroundFrame(JumpKey)
JumpRightHeld == GroundFrame(RightJumpKeys)
RightHeld == GroundFrame(RightKey)
NothingHeld == GroundFrame(NoKeys)

NextJump == JumpHeld \/ JumpRightHeld \/ RightHeld \/ NothingHeld

SpecJump == InitJump /\ [][NextJump]_vars

C29_WitnessHeld ==
    /\ hist.op = "player_update" /\ hist.keys.jump /\ ~hist.trig
    /\ hist.jumps >= 1 /\ ~hist.since_before


(* ---- An enemy walking into a wall ---- *)

\* the floor of LevelC with a stone tile past its left end, at the height of
\* the enemies that walk on the floor
LevelW == <<TilePlatform(0, 2)>> \o LevelC

MaxWallFrames == 190

\* a Goomba put on the floor 90 or 89 px right of the floor's left end
InitWall ==
    /\ platforms = LevelW
    /\ enemy \in {Goomba(Px(122), Px(72)), Goomba(Px(121), Px(72))}
    /\ player = Absent /\ powerup = Absent
    /\ frames = 0
    /\ hist = [op |-> "init"]
    /\ hits = << >>
    /\ NoGeo
    /\ mgr = NoManager
    /\ NoExtras

\* Enemy.update, with the enemy right after the horizontal displacement kept
WallFrame ==
    /\ frames < MaxWallFrames
    /\ enemy.active
    /\ \E s \in {EnemyUpdateSteps(enemy, platforms)} :
          /\ enemy' = s.out
          /\ hist' = [op |-> "enemy_update", pre |-> enemy, midx |-> s.midx]
    /\ frames' = frames + 1
    /\ UNCHANGED <<platforms, player, powerup, hits, geoA, geoB, geoRes, mgr, coin, goal, game, block>>

NextWall == WallFrame

SpecWall == InitWall /\ [][NextWall]_vars

\* the horizontal displacement of the last update brought the enemy's box
\* over platform i
WalkedInto(i) ==
    /\ hist.op = "enemy_update"
    /\ hist.midx.vx # 0
    /\ ~collides_with(hist.pre, platforms[i])
    /\ collides_with(hist.midx, platforms[i])

\* C30: an enemy whose horizontal displacement brought its box over a solid
\* platform ends the update against the side it came from (moving left: its
\* left edge on the platform's right edge; moving right: its right edge on
\* the platform's left edge) with its direction reversed
C30_WallContact ==
    \A i \in 1..Len(platforms) :
        WalkedInto(i) =>
            /\ enemy.direction = 0 - hist.midx.direction
            /\ IF hist.midx.vx < 0
               THEN enemy.x = Right(platforms[i])
               ELSE Right(enemy) = platforms[i].x

\* the Goomba walked left into the stone tile and ended the update with its
\* right edge on the tile's left edge, on the far side
C30_Witness ==
    /\ WalkedInto(1)
    /\ hist.midx.vx < 0
    /\ Right(enemy) = platforms[1].x


(* ---- The Koopa's shell ---- *)

MaxShellFrames == 335
MaxShellStomps == 2
MaxStompFrame == 3

\* the shell duration Koopa.stomp sets, in frames
SHELL_DURATION == Secs(50)

\* a stomp has not happened yet
NoStomp == 0 - 1

\* a Koopa as constructed, standing on the floor of LevelD
InitShell ==
    /\ platforms = LevelD
    /\ enemy = Koopa(Px(300), Px(64))
    /\ player = Absent /\ powerup = Absent
    /\ frames = 0
    /\ hist = [op |-> "init", since |-> NoStomp, stomps |-> 0]
    /\ hits = << >>
    /\ NoGeo
    /\ mgr = NoManager
    /\ NoExtras

\* Enemy.update; since counts the updates made after the stomp that put the
\* Koopa into its shell
ShellFrame ==
    /\ frames < MaxShellFrames
    /\ enemy.active
    /\ \E s \in {EnemyUpdateSteps(enemy, platforms)} :
          /\ enemy' = s.out
          /\ hist' = [op |-> "enemy_update", pre |-> enemy, stomps |-> hist.stomps,
                      since |-> IF hist.since = NoStomp THEN NoStomp ELSE hist.since + 1]
    /\ frames' = frames + 1
    /\ UNCHANGED <<platforms, player, powerup, hits, geoA, geoB, geoRes, mgr, coin, goal, game, block>>

\* enemy.stomp() as the collision handler calls it: in the first frames, or
\* on the Koopa in its shell
ShellStomp ==
    /\ hist.stomps < MaxShellStomps
    /\ enemy.active
    /\ frames <= MaxStompFrame \/ (enemy.shell_mode /\ hist.since <= MaxStompFrame)
    /\ \E s \in {stomp(enemy)} :
          /\ enemy' = s.enemy
          /\ hist' = [op |-> "stomp", pre |-> enemy, points |-> s.points,
                      stomps |-> hist.stomps + 1,
                      since |-> IF enemy.shell_mode THEN hist.since ELSE 0]
    /\ UNCHANGED <<platforms, player, powerup, frames, hits, geoA, geoB, geoRes, mgr,
                   coin, goal, game, block>>

NextShell == ShellFrame \/ ShellStomp

SpecShell == InitShell /\ [][NextShell]_vars

\* C31: the stomp of a Koopa that is not in its shell leaves it in shell
\* mode with height 20, vx 0 and not dead, and from then on it is in shell
\* mode exactly while less than 5.0 s of updates have been made, with
\* height 32 afterwards
C31_ShellDuration ==
    /\ (hist.op = "stomp" /\ ~hist.pre.shell_mode) =>
          (enemy.shell_mode /\ enemy.h = 20 /\ enemy.vx = 0 /\ ~enemy.dead)
    /\ hist.since # NoStomp =>
          /\ enemy.shell_mode <=> hist.since < SHELL_DURATION
          /\ ~enemy.shell_mode => enemy.h = 32

\* 5.0 s of updates after the stomp the Koopa is still in its shell
C31_Witness ==
    /\ hist.op = "enemy_update" /\ hist.since = SHELL_DURATION
    /\ enemy.shell_mode /\ enemy.h = 20

\* the update in which the Koopa leaves its shell
C31_WitnessRevert ==
    /\ hist.op = "enemy_update" /\ hist.since > SHELL_DURATION
    /\ hist.pre.shell_mode /\ ~enemy.shell_mode /\ enemy.h = 32


\* C32: stomp() on a Koopa in its shell changes nothing of the Koopa
\* (velocity, direction, stunned, timers, shell_mode) and returns
\* stomp_points
C32_KickInert ==
    (hist.op = "stomp" /\ hist.pre.shell_mode) =>
        /\ enemy = hist.pre
        /\ hist.points = hist.pre.stomp_points

\* the Koopa in its shell has been stomped, while stunned
C32_Witness ==
    /\ hist.op = "stomp" /\ hist.pre.shell_mode
    /\ hist.pre.stunned /\ hist.stomps = 2

\* the same after some updates in the shell
C32_WitnessLater ==
    /\ hist.op = "stomp" /\ hist.pre.shell_mode
    /\ hist.since > 0 /\ hist.pre.stun_timer < Secs(5)


(* ---- Level.generate_platforms ---- *)

\* a level of 3 x 2 tiles
LevelWidth == 3
LevelHeight == 2

MaxTiles == 4

Cells == (0..(LevelWidth - 1)) \X (0..(LevelHeight - 1))

\* a cell of Level.tiles: None, or a Tile of a type, solid or not
NoTile == [tile_type |-> "none", solid |-> FALSE]
Tiles == [tile_type : {"ground", "stone"}, solid : BOOLEAN]

\* Level.__init__: every cell None
EmptyLevel == [c \in Cells |-> NoTile]

\* Level.get_tile: None outside the grid
get_tile(tiles, c) == IF c \in Cells THEN tiles[c] ELSE NoTile

\* Level.set_tile
set_tile(tiles, c, t) == IF c \in Cells THEN [tiles EXCEPT ![c] = t] ELSE tiles

\* the neighbours _flood_fill_platform pushes, in its order, without those
\* already visited
Neighbours(c, visited) ==
    SelectSeq(<<<<c[1], c[2] + 1>>, <<c[1], c[2] - 1>>, <<c[1] + 1, c[2]>>,
                <<c[1] - 1, c[2]>>>>,
              LAMBDA n : n \notin visited)

\* variant: a popped cell is not tested against visited
RECURSIVE FloodLoop_nocheck(_, _, _)
FloodLoop_nocheck(tiles, tile_type, f) ==
    IF f.stack = << >> THEN f
    ELSE Let([c |-> f.stack[Len(f.stack)], rest |-> SubSeq(f.stack, 1, Len(f.stack) - 1)],
         LAMBDA q :
            IF \/ get_tile(tiles, q.c) = NoTile \/ ~get_tile(tiles, q.c).solid
               \/ get_tile(tiles, q.c).tile_type # tile_type
            THEN FloodLoop_nocheck(tiles, tile_type, [f EXCEPT !.stack = q.rest])
            ELSE FloodLoop_nocheck(tiles, tile_type,
                     [stack |-> q.rest \o Neighbours(q.c, f.visited \cup {q.c}),
                      visited |-> f.visited \cup {q.c},
                      platform_tiles |-> Append(f.platform_tiles, q.c)]))

\* the while loop of _flood_fill_platform: f holds stack, visited and
\* platform_tiles
RECURSIVE FloodLoop(_, _, _)
FloodLoop(tiles, tile_type, f) ==
    IF f.stack = << >> THEN f
    ELSE Let([c |-> f.stack[Len(f.stack)], rest |-> SubSeq(f.stack, 1, Len(f.stack) - 1)],
         LAMBDA q :
            IF q.c \in f.visited
            THEN FloodLoop(tiles, tile_type, [f EXCEPT !.stack = q.rest])
            ELSE IF \/ get_tile(tiles, q.c) = NoTile \/ ~get_tile(tiles, q.c).solid
                    \/ get_tile(tiles, q.c).tile_type # tile_type
            THEN FloodLoop(tiles, tile_type, [f EXCEPT !.stack = q.rest])
            ELSE FloodLoop(tiles, tile_type,
                     [stack |-> q.rest \o Neighbours(q.c, f.visited \cup {q.c}),
                      visited |-> f.visited \cup {q.c},
                      platform_tiles |-> Append(f.platform_tiles, q.c)]))

\* Level._flood_fill_platform: the tiles found and the visited set after it
flood_fill_platform(tiles, start, visited) ==
    IF start \in visited \/ get_tile(tiles, start) = NoTile \/ ~get_tile(tiles, start).solid
    THEN [stack |-> << >>, visited |-> visited, platform_tiles |-> << >>]
    ELSE FloodLoop(tiles, get_tile(tiles, start).tile_type,
                   [stack |-> <<start>>, visited |-> visited, platform_tiles |-> << >>])

\* the cells in the order of the two for loops: row by row
ScanOrder == [i \in 1..(LevelWidth * LevelHeight) |->
                 <<(i - 1) % LevelWidth, (i - 1) \div LevelWidth>>]

\* one Platform per tile of the list
RECURSIVE PlatformsOf(_, _)
PlatformsOf(cs, i) ==
    IF i > Len(cs) THEN << >>
    ELSE <<TilePlatform(cs[i][1], cs[i][2])>> \o PlatformsOf(cs, i + 1)

\* the for loops of generate_platforms from the i-th cell on
RECURSIVE ScanLoop(_, _, _, _)
ScanLoop(tiles, i, visited, out) ==
    IF i > Len(ScanOrder) THEN out
    ELSE IF ScanOrder[i] \notin visited /\ get_tile(tiles, ScanOrder[i]).solid
    THEN Let(flood_fill_platform(tiles, ScanOrder[i], visited),
             LAMBDA f : ScanLoop(tiles, i + 1, f.visited,
                                 out \o PlatformsOf(f.platform_tiles, 1)))
    ELSE ScanLoop(tiles, i + 1, visited, out)

\* Level.generate_platforms
generate_platforms(tiles) == ScanLoop(tiles, 1, {}, << >>)

\* a level being built: no platform materialized yet
InitLevel ==
    /\ platforms = << >>
    /\ game = [state |-> "menu", tiles |-> EmptyLevel, set |-> 0]
    /\ player = Absent /\ enemy = Absent /\ powerup = Absent
    /\ coin = Absent /\ goal = Absent /\ block = Absent
    /\ frames = 0
    /\ hist = [op |-> "init"]
    /\ hits = << >>
    /\ NoGeo
    /\ mgr = NoManager

\* Level.set_tile, as a level builder calls it
SetTile ==
    /\ game.state = "menu"
    /\ game.set < MaxTiles
    /\ \E c \in Cells, t \in Tiles :
          game' = [game EXCEPT !.tiles = set_tile(@, c, t), !.set = @ + 1]
    /\ hist' = [op |-> "set_tile"]
    /\ UNCHANGED <<platforms, player, enemy, powerup, frames, hits, geoA, geoB, geoRes, mgr,
                   coin, goal, block>>

\* PlayingState.enter: the platforms of the level are materialized
EnterLevel ==
    /\ game.state = "menu"
    /\ \E ps \in {generate_platforms(game.tiles)} : platforms' = ps
    /\ game' = [game EXCEPT !.state = "playing"]
    /\ hist' = [op |-> "generate_platforms"]
    /\ UNCHANGED <<player, enemy, powerup, frames, hits, geoA, geoB, geoRes, mgr, coin, goal, block>>

NextLevel == SetTile \/ EnterLevel

SpecLevel == InitLevel /\ [][NextLevel]_vars

\* the platforms materialized at the place of cell c
PlatformsAt(c) ==
    {i \in 1..Len(platforms) :
        platforms[i].x = Px(c[1] * TILE_SIZE) /\ platforms[i].y = Px(c[2] * TILE_SIZE)}

\* C33: generate_platforms returns one solid TILE_SIZE x TILE_SIZE Platform
\* at the place of every solid tile, none for any other cell, and nothing
\* else
C33_OnePlatformPerTile ==
    hist.op = "generate_platforms" =>
        /\ \A c \in Cells :
              Cardinality(PlatformsAt(c)) = IF game.tiles[c].solid THEN 1 ELSE 0
        /\ \A i \in 1..Len(platforms) :
              /\ platforms[i].type = "platform" /\ platforms[i].solid
              /\ platforms[i].w = TILE_SIZE /\ platforms[i].h = TILE_SIZE
              /\ \E c \in Cells : i \in PlatformsAt(c)

\* a square of four solid tiles, two of each type, next to each other, has
\* been materialized
C33_Witness ==
    /\ hist.op = "generate_platforms"
    /\ Len(platforms) = 4
    /\ \E c \in Cells :
          /\ <<c[1] + 1, c[2] + 1>> \in Cells
          /\ game.tiles[c].solid /\ game.tiles[<<c[1] + 1, c[2]>>].solid
          /\ game.tiles[<<c[1], c[2] + 1>>].solid /\ game.tiles[<<c[1] + 1, c[2] + 1>>].solid
          /\ game.tiles[c].tile_type # game.tiles[<<c[1] + 1, c[2]>>].tile_type

\* a level with a non-solid tile next to a solid one
C33_WitnessNonSolid ==
    /\ hist.op = "generate_platforms"
    /\ Len(platforms) = 1
    /\ \E c \in Cells : game.tiles[c] # NoTile /\ ~game.tiles[c].solid


\* the displacement that led to m brought the power-up's box over solid
\* platform i, which the box before it did not touch
ReachedPlatform(before, m, i) ==
    /\ platforms[i].solid /\ platforms[i].active
    /\ ~Colliderect(Rect(before), Rect(platforms[i]))
    /\ Colliderect(Rect(m), Rect(platforms[i]))

\* C34: a power-up whose fall brings its box onto a solid platform ends the
\* update on it (bottom on the platform's top, vy = 0, grounded), and one
\* whose drift brings its box against a solid platform ends the update with
\* its direction reversed
C34_PowerUpPhysics ==
    hist.op = "powerup_update" =>
        \A i \in 1..Len(platforms) :
            /\ (ReachedPlatform(hist.pre, hist.midx, i)) =>
                  powerup.direction = 0 - hist.pre.direction
            /\ (/\ \A j \in 1..Len(platforms) : ~Colliderect(Rect(hist.midx), Rect(platforms[j]))
                /\ hist.midy.vy > 0
                /\ ReachedPlatform(hist.midx, hist.midy, i)) =>
                  /\ Bottom(powerup) = platforms[i].y
                  /\ powerup.vy = 0 /\ powerup.grounded

\* the falling power-up has ended an update inside the floor, still falling
C34_Witness ==
    /\ hist.op = "powerup_update"
    /\ hist.midy.vy > 0
    /\ \E i \in 1..Len(platforms) :
          /\ ReachedPlatform(hist.midx, hist.midy, i)
          /\ Bottom(powerup) > platforms[i].y
    /\ powerup.vy > 0 /\ ~powerup.grounded

(* ---- BumpableBlock and QuestionBlock (src/src/collectibles.py) ---- *)

\* bump_timer is kept in units of 1/300 s: dt = 1/60 s is 5 units and the
\* 0.12 s of a bump is 36 units
BUMP_DT == 5
BUMP_TIME == 36

MaxBlockFrames == 9
MaxBumps == 3

QuestionBlock(x, y, contains) ==
    [type |-> "block", x |-> x, y |-> y, w |-> 32, h |-> 32,
     vx |-> 0, vy |-> 0, active |-> TRUE, solid |-> TRUE,
     bump_timer |-> 0, bump_offset |-> 0, contains |-> contains, used |-> FALSE]

\* BumpableBlock.on_bumped
BumpableBlock_on_bumped(b) == [b EXCEPT !.bump_timer = BUMP_TIME]

\* variant: the block dispenses on every bump
on_bumped_always(b, p) ==
    LET b1 == BumpableBlock_on_bumped(b)
    IN [block |-> [b1 EXCEPT !.used = TRUE],
        player |-> IF b.contains = "coin" THEN collect_coin(p) ELSE p]

\* QuestionBlock.on_bumped: the block and the player after it
on_bumped(b, p) ==
    IF b.used THEN [block |-> b, player |-> p]
    ELSE LET b1 == BumpableBlock_on_bumped(b)
         IN [block |-> [b1 EXCEPT !.used = TRUE],
             player |-> IF b.contains = "coin" THEN collect_coin(p) ELSE p]

\* int(bump_timer * 30)
BumpPhase(t) == IF t >= 0 THEN t \div 10 ELSE 0 - ((0 - t) \div 10)

\* BumpableBlock.update
BlockUpdate(b) ==
    IF b.bump_timer > 0
    THEN LET t == b.bump_timer - BUMP_DT
         IN [b EXCEPT !.bump_timer = t,
                      !.bump_offset = IF BumpPhase(t) % 2 = 0 THEN 0 - 2 ELSE 0]
    ELSE [b EXCEPT !.bump_offset = 0]

\* the two blocks PlayingState.enter places, and a fire-flower block; the
\* player has collected 0 or 99 coins before
InitBlock ==
    /\ platforms = << >>
    /\ \E c \in {0, 99} :
          player = [Player(Px(12 * TILE_SIZE), Px(15 * TILE_SIZE))
                       EXCEPT !.coins = c, !.score = 100 * c]
    /\ enemy = Absent /\ powerup = Absent
    /\ frames = 0
    /\ block \in {QuestionBlock(Px(12 * TILE_SIZE), Px(14 * TILE_SIZE), "coin"),
                  QuestionBlock(Px(13 * TILE_SIZE), Px(14 * TILE_SIZE), "mushroom"),
                  QuestionBlock(Px(13 * TILE_SIZE), Px(14 * TILE_SIZE), "fire_flower")}
    /\ hist = [op |-> "init", bumps |-> 0, pre_block |-> block, pre_player |-> player,
               player0 |-> player]
    /\ hits = << >>
    /\ NoGeo
    /\ mgr = NoManager
    /\ coin = Absent /\ goal = Absent /\ game = NoGame

\* block.on_bumped(player)
BlockBump ==
    /\ hist.bumps < MaxBumps
    /\ \E r \in {on_bumped(block, player)} :
          /\ block' = r.block
          /\ player' = r.player
    /\ hist' = [op |-> "bump", bumps |-> hist.bumps + 1, pre_block |-> block,
                pre_player |-> player, player0 |-> hist.player0]
    /\ UNCHANGED <<platforms, enemy, powerup, frames, hits, geoA, geoB, geoRes, mgr,
                   coin, goal, game>>

\* block.update(dt, entities)
BlockFrame ==
    /\ frames < MaxBlockFrames
    /\ block' = BlockUpdate(block)
    /\ frames' = frames + 1
    /\ hist' = [op |-> "update", bumps |-> hist.bumps, pre_block |-> block,
                pre_player |-> player, player0 |-> hist.player0]
    /\ UNCHANGED <<platforms, player, enemy, powerup, hits, geoA, geoB, geoRes, mgr,
                   coin, goal, game>>

NextBlock == BlockBump \/ BlockFrame

SpecBlock == InitBlock /\ [][NextBlock]_vars

\* C35: once a QuestionBlock has been bumped, used is true in every later
\* state and a later on_bumped changes neither the block (its bump timer is
\* not restarted) nor the player; over any sequence of bumps a coin block
\* awards exactly one coin and the other blocks award nothing
C35_DispensesOnce ==
    /\ hist.bumps >= 1 => block.used
    /\ hist.op = "bump" /\ hist.bumps >= 2 =>
          block = hist.pre_block /\ player = hist.pre_player
    /\ hist.bumps >= 1 /\ block.contains = "coin" => player = collect_coin(hist.player0)
    /\ block.contains # "coin" => player = hist.player0

\* the coin block is bumped a third time while its bump timer is running
C35_Witness ==
    /\ hist.op = "bump" /\ hist.bumps = 3 /\ block.contains = "coin"
    /\ hist.pre_block.bump_timer > 0 /\ hist.pre_block.bump_timer < BUMP_TIME
    /\ player.score = hist.player0.score + 100

\* a used block is bumped again after its bump timer has run out
C35_WitnessLater ==
    /\ hist.op = "bump" /\ hist.bumps >= 2 /\ hist.pre_block.bump_timer <= 0
    /\ block.bump_timer <= 0 /\ block.used

(* ---- Pause and resume (GameEngine.change_state, src/src/game_engine.py) ---- *)

MaxPauseFrames == 8
MaxPauses == 2

\* the order in which PlayingState.enter adds the entities of the scene
EnterOrder == <<"player", "enemy", "coin", "powerup", "goal">>

RECURSIVE AddAll(_, _, _)
AddAll(m, names, i) ==
    IF i > Len(names) THEN m ELSE AddAll(add_entity(m, names[i]), names, i + 1)

\* PlayingState.enter on the manager m: a new player at the spawn point, new
\* entities of the level, all queued in the manager, and the state's fields
\* reset
PlayingEnter(m) ==
    [scene |-> [player |-> Player(Px(TILE_SIZE), Px(2 * TILE_SIZE)),
                enemy |-> Goomba(Px(58), Px(72)),
                powerup |-> Mushroom(Px(36), Px(70)),
                coin |-> Coin(Px(40), Px(70)),
                goal |-> GoalFlag(Px(40), Px(96))],
     mgr |-> AddAll(m, EnterOrder, 1),
     game |-> Playing(Secs(10))]

\* PlayingState.exit: entity_manager.clear()
PlayingExit(m) == NoManager

\* change_state(STATE_PAUSED) from PLAYING: PlayingState.exit, then
\* PausedState.enter, which does nothing
ChangeToPaused(g, m, sc) ==
    [scene |-> sc, mgr |-> PlayingExit(m), game |-> [g EXCEPT !.state = "paused"]]

\* change_state(STATE_PLAYING) from PAUSED: PausedState.exit, which does
\* nothing, then PlayingState.enter
ChangeToPlaying(g, m, sc) == PlayingEnter(m)

PauseRecord0 == [op |-> "init", pauses |-> 0, paused |-> Absent]

\* the PLAYING state two frames before the end of the intro delay of a
\* level entered from the menu
InitPause ==
    /\ platforms = LevelA
    /\ \E r \in {PlayingEnter(NoManager)} :
          /\ player = r.scene.player
          /\ enemy = r.scene.enemy
          /\ powerup = r.scene.powerup
          /\ coin = r.scene.coin
          /\ goal = r.scene.goal
          /\ mgr = r.mgr
    /\ game = Playing(2)
    /\ frames = 0
    /\ hist = PauseRecord0
    /\ hits = << >>
    /\ NoGeo
    /\ block = Absent

\* one frame of the PLAYING state
PauseFrame ==
    /\ frames < MaxPauseFrames
    /\ game.state = "playing"
    /\ \E r \in {playing_update(game, mgr, Scene, platforms)} :
          /\ game' = r.game
          /\ mgr' = r.mgr
          /\ player' = r.scene.player
          /\ enemy' = r.scene.enemy
          /\ powerup' = r.scene.powerup
          /\ coin' = r.scene.coin
          /\ goal' = r.scene.goal
    /\ hist' = [op |-> "playing_update", pauses |-> hist.pauses, paused |-> Absent]
    /\ frames' = frames + 1
    /\ UNCHANGED <<platforms, hits, geoA, geoB, geoRes, block>>

\* PlayingState.handle_event with a key of KEYS_PAUSE
PauseKey ==
    /\ game.state = "playing"
    /\ hist.pauses < MaxPauses
    /\ \E r \in {ChangeToPaused(game, mgr, Scene)} :
          /\ game' = r.game
          /\ mgr' = r.mgr
    /\ hist' = [op |-> "pause", pauses |-> hist.pauses + 1,
                paused |-> [scene |-> Scene, mgr |-> mgr, game |-> game]]
    /\ UNCHANGED <<platforms, player, enemy, powerup, frames, hits, geoA, geoB, geoRes,
                   coin, goal, block>>

\* PausedState.handle_event with a key of KEYS_PAUSE
ResumeKey ==
    /\ game.state = "paused"
    /\ \E r \in {ChangeToPlaying(game, mgr, Scene)} :
          /\ game' = r.game
          /\ mgr' = r.mgr
          /\ player' = r.scene.player
          /\ enemy' = r.scene.enemy
          /\ powerup' = r.scene.powerup
          /\ coin' = r.scene.coin
          /\ goal' = r.scene.goal
    /\ hist' = [op |-> "resume", pauses |-> hist.pauses, paused |-> hist.paused]
    /\ UNCHANGED <<platforms, frames, hits, geoA, geoB, geoRes, block>>

NextPause == PauseFrame \/ PauseKey \/ ResumeKey

SpecPause == InitPause /\ [][NextPause]_vars

\* the names of the live entities of a manager whose entity is active
LiveNames(m, sc) == {n \in SceneNames : InSeq(m.entities, n) /\ sc[n].active}

\* C36: when PLAYING is resumed from PAUSED the gameplay state is the one
\* that was paused: the same live entities, the same player (lives, score,
\* coins, power_level, position) and the same remaining time
C36_PausePreserves ==
    hist.op = "resume" =>
        /\ LiveNames(mgr, Scene) = LiveNames(hist.paused.mgr, hist.paused.scene)
        /\ player = hist.paused.scene.player
        /\ enemy = hist.paused.scene.enemy
        /\ game.time_remaining = hist.paused.game.time_remaining

\* the game is resumed after a pause made when the player had moved and had
\* lost a life to the Goomba
C36_Witness ==
    /\ hist.op = "resume"
    /\ hist.paused.scene.player.lives = 2 /\ player.lives = 3
    /\ hist.paused.scene.player.y # player.y
    /\ LiveNames(hist.paused.mgr, hist.paused.scene) # {}
    /\ LiveNames(mgr, Scene) = {}
    /\ game.time_remaining = TIME_LIMIT * FPS

(* ---- Lives over a playthrough (Player.take_damage within PlayingState.update) ---- *)

MaxLivesFrames == 8

\* the player after earlier hits: lives left, and whether the window of the
\* last hit still has two frames to run
LivesPlayers(x, y) ==
    { [Player(x, y) EXCEPT !.lives = l] : l \in 1..3 } \cup
    { [Player(x, y) EXCEPT !.lives = l, !.invulnerable = TRUE, !.invulnerable_timer = 2] :
          l \in 1..2 }

\* a playthrough after the intro delay: the player stands on the floor with
\* a Goomba touching it, or falls past the right end of the floor just above
\* the world depth; the clock has one frame left or the whole time limit
InitLives ==
    /\ platforms = LevelA
    /\ player \in LivesPlayers(Px(TILE_SIZE), Px(2 * TILE_SIZE))
                     \cup LivesPlayers(Px(200), Px(WORLD_DEPTH - 1))
    /\ \E r \in {PlayingEnter(NoManager)} :
          /\ enemy = r.scene.enemy
          /\ powerup = r.scene.powerup
          /\ coin = r.scene.coin
          /\ goal = r.scene.goal
          /\ mgr = r.mgr
    /\ game \in {Playing(0), [Playing(0) EXCEPT !.time_remaining = 1]}
    /\ frames = 0
    /\ hist = [op |-> "init", pre_scene |-> Scene, pre_game |-> game, calls |-> << >>]
    /\ hits = << >>
    /\ NoGeo
    /\ block = Absent

\* one frame of the PLAYING state
LivesFrame ==
    /\ frames < MaxLivesFrames
    /\ game.state = "playing"
    /\ \E r \in {playing_update(game, mgr, Scene, platforms)} :
          /\ game' = r.game
          /\ mgr' = r.mgr
          /\ player' = r.scene.player
          /\ enemy' = r.scene.enemy
          /\ powerup' = r.scene.powerup
          /\ coin' = r.scene.coin
          /\ goal' = r.scene.goal
          /\ hist' = [op |-> "playing_update", pre_scene |-> Scene, pre_game |-> game,
                      calls |-> r.calls]
    /\ frames' = frames + 1
    /\ UNCHANGED <<platforms, hits, geoA, geoB, geoRes, block>>

NextLives == LivesFrame

SpecLives == InitLives /\ [][NextLives]_vars

\* C37: in every state of a playthrough lives >= 0 and the player is active
\* exactly when lives > 0; a frame that starts with a deactivated player
\* changes nothing of the player, and a frame in which the player is
\* deactivated takes exactly one life
C37_Lives ==
    /\ player.lives >= 0
    /\ player.active <=> player.lives > 0
    /\ hist.op = "playing_update" /\ ~hist.pre_scene.player.active =>
          player = hist.pre_scene.player /\ hist.calls = << >>
    /\ hist.op = "playing_update" /\ hist.pre_scene.player.active /\ ~player.active =>
          hist.pre_scene.player.lives = 1

\* the clock runs out on a player with one life that is touching the Goomba:
\* the time-out takes the life and the contact takes nothing more
C37_Witness ==
    /\ hist.op = "playing_update" /\ hist.pre_game.time_remaining = 1
    /\ hist.pre_scene.player.lives = 1 /\ ~hist.pre_scene.player.invulnerable
    /\ Colliderect(Rect(hist.pre_scene.player), Rect(hist.pre_scene.enemy))
    /\ ~player.active /\ player.lives = 0

\* the player falls below the world depth with its last life, and the next
\* frame ends the game
C37_WitnessFall ==
    /\ game.state = "game_over" /\ player.y > Px(WORLD_DEPTH)
    /\ ~player.active /\ player.lives = 0

\* the Goomba takes a life of a player whose window has just run out
C37_WitnessContact ==
    /\ hist.op = "playing_update" /\ hist.calls = <<"take_damage">>
    /\ hist.pre_scene.player.lives = 2 /\ player.lives = 1 /\ player.invulnerable

(* ---- The invulnerability window (Player.update_physics, Player.take_damage) ---- *)

MaxWindowHits == 2

WindowHit == HitUpTo(MaxWindowHits)

\* the player as constructed or after one power_up, standing on the floor
InitWindow ==
    /\ platforms = LevelA
    /\ player \in {Player(Px(TILE_SIZE), Px(2 * TILE_SIZE)),
                   power_up(Player(Px(TILE_SIZE), Px(2 * TILE_SIZE)))}
    /\ enemy = Absent /\ powerup = Absent
    /\ frames = 0
    /\ hist = [op |-> "init"]
    /\ hits = << >>
    /\ NoGeo
    /\ mgr = NoManager
    /\ NoExtras

NextWindow == IdleFrame \/ WindowHit

\* the player keeps being updated: the frame loop calls Player.update in
\* every frame of the PLAYING state
SpecWindow == InitWindow /\ [][NextWindow]_vars /\ WF_vars(IdleFrame)

\* C38: an invulnerable player has a positive invulnerable_timer; a hit that
\* opens a window grants 2.0 s or 3.0 s, every update of an invulnerable
\* player takes one frame off the timer, and every window ends
C38_Window ==
    /\ [](player.invulnerable => player.invulnerable_timer > 0)
    /\ [](hist.op = "take_damage" /\ ~hist.pre.invulnerable /\ player.invulnerable
            => player.invulnerable_timer =
                  IF hist.pre.power_level > 0 THEN Secs(20) ELSE Secs(30))
    /\ [](hist.op = "player_update" /\ hist.pre.invulnerable
            => /\ player.invulnerable_timer = hist.pre.invulnerable_timer - 1
               /\ player.invulnerable <=> player.invulnerable_timer > 0)
    /\ (player.invulnerable ~> ~player.invulnerable)

\* the update that ends the 3.0 s window of the second hit
C38_Witness ==
    /\ hist.op = "player_update" /\ hist.pre.invulnerable /\ ~player.invulnerable
    /\ player.invulnerable_timer = 0 /\ Len(hits) = 2 /\ player.lives = 2
    /\ player.power_level = 0 /\ player.score = 1000

\* a 2.0 s window about to end
C38_WitnessShort ==
    /\ player.invulnerable /\ player.invulnerable_timer = 1
    /\ player.lives = 3 /\ Len(hits) = 1

(* ---- EntityManager.remove_entity (src/src/entity.py) ---- *)

MaxRemoveFrames == 4
MaxRemoves == 3

remove_entity(m, n) ==
    IF InSeq(m.entities, n) THEN [m EXCEPT !.entities_to_remove = Append(@, n)] ELSE m

RemoveRecord0 == [op |-> "init", removed |-> {}, removes |-> 0]

InitRemove ==
    /\ platforms = LevelA
    /\ player \in EnginePlayers
    /\ enemy \in EngineEnemies
    /\ powerup = Absent
    /\ frames = 0
    /\ hist = RemoveRecord0
    /\ hits = << >>
    /\ NoGeo
    /\ mgr = NoManager
    /\ NoExtras

\* entity_manager.add_entity on an entity that is not in the manager
RemoveAdd ==
    /\ frames < MaxRemoveFrames
    /\ \E n \in EntityNames :
          /\ Scene[n].active
          /\ ~InSeq(mgr.entities, n) /\ ~InSeq(mgr.entities_to_add, n)
          /\ mgr' = add_entity(mgr, n)
          /\ hist' = [op |-> "add_entity", name |-> n, pre_mgr |-> mgr,
                      removed |-> hist.removed, removes |-> hist.removes]
    /\ UNCHANGED <<platforms, player, enemy, powerup, frames, hits, geoA, geoB, geoRes,
                   coin, goal, game, block>>

\* entity_manager.remove_entity on an entity that is live or waiting in the
\* pending additions; removed collects the entities of the calls made since
\* the last update
RemoveCall ==
    /\ hist.removes < MaxRemoves
    /\ \E n \in EntityNames :
          /\ InSeq(mgr.entities, n) \/ InSeq(mgr.entities_to_add, n)
          /\ mgr' = remove_entity(mgr, n)
          /\ hist' = [op |-> "remove_entity", name |-> n, pre_mgr |-> mgr,
                      removed |-> hist.removed \cup {n}, removes |-> hist.removes + 1]
    /\ UNCHANGED <<platforms, player, enemy, powerup, frames, hits, geoA, geoB, geoRes,
                   coin, goal, game, block>>

\* entity_manager.update(dt)
RemoveUpdate ==
    /\ frames < MaxRemoveFrames
    /\ \E u \in {manager_update(mgr, Scene, platforms)} :
          /\ mgr' = u.mgr
          /\ player' = u.scene.player
          /\ enemy' = u.scene.enemy
    /\ hist' = [op |-> "update", pre_mgr |-> mgr, removed |-> {},
                pre_removed |-> hist.removed, removes |-> hist.removes]
    /\ frames' = frames + 1
    /\ UNCHANGED <<platforms, powerup, hits, geoA, geoB, geoRes, coin, goal, game, block>>

NextRemove == RemoveAdd \/ RemoveCall \/ RemoveUpdate

SpecRemove == InitRemove /\ [][NextRemove]_vars

\* C39: after EntityManager.update no entity that remove_entity was called
\* on since the update before is in the live collection, whether it was
\* live or waiting in the pending additions at the call
C39_RemovalTakesEffect ==
    hist.op = "update" => \A n \in hist.pre_removed : ~InSeq(mgr.entities, n)

\* remove_entity was called on the enemy while it was waiting in the pending
\* additions, and the update makes the enemy live
C39_Witness ==
    /\ hist.op = "update" /\ "enemy" \in hist.pre_removed
    /\ InSeq(hist.pre_mgr.entities_to_add, "enemy")
    /\ hist.pre_mgr.entities_to_remove = << >>
    /\ InSeq(mgr.entities, "enemy")

\* remove_entity was called on the live enemy, and the update drops it
C39_WitnessLive ==
    /\ hist.op = "update" /\ "enemy" \in hist.pre_removed
    /\ InSeq(hist.pre_mgr.entities, "enemy")
    /\ InSeq(hist.pre_mgr.entities_to_remove, "enemy")
    /\ ~InSeq(mgr.entities, "enemy") /\ enemy.active

(* ---- Falling off the world (Player.update within PlayingState.update) ---- *)

MaxFallFrames == 520

\* a level entered with the player past the right end of the floor, one
\* pixel above the world depth, as constructed or after one power_up; the
\* level has a Goomba and the goal, and no coin or power-up; the intro delay
\* is over or has two frames left
InitFall ==
    /\ platforms = LevelA
    /\ player \in {Player(Px(200), Px(WORLD_DEPTH - 1)),
                   power_up(Player(Px(200), Px(WORLD_DEPTH - 1)))}
    /\ enemy = Goomba(Px(58), Px(72))
    /\ powerup = Absent /\ coin = Absent
    /\ goal = GoalFlag(Px(40), Px(96))
    /\ mgr = AddAll(NoManager, <<"player", "enemy", "goal">>, 1)
    /\ game \in {Playing(0), Playing(2)}
    /\ frames = 0
    /\ hist = [op |-> "init", pre_scene |-> Scene, pre_game |-> game, updated |-> << >>]
    /\ hits = << >>
    /\ NoGeo
    /\ block = Absent

\* one frame of the PLAYING state
FallFrame ==
    /\ frames < MaxFallFrames
    /\ game.state = "playing"
    /\ \E r \in {playing_update(game, mgr, Scene, platforms)} :
          /\ game' = r.game
          /\ mgr' = r.mgr
          /\ player' = r.scene.player
          /\ enemy' = r.scene.enemy
          /\ powerup' = r.scene.powerup
          /\ coin' = r.scene.coin
          /\ goal' = r.scene.goal
          /\ hist' = [op |-> "playing_update", pre_scene |-> Scene, pre_game |-> game,
                      updated |-> r.updated]
    /\ frames' = frames + 1
    /\ UNCHANGED <<platforms, hits, geoA, geoB, geoRes, block>>

NextFall == FallFrame

\* frames keep advancing: the main loop calls update in every frame
SpecFall == InitFall /\ [][NextFall]_vars /\ WF_vars(FallFrame)

\* the player of the frame before was still invulnerable when this frame's
\* Player.update reached the depth test
WindowOpenAtTest(q) == q.invulnerable /\ q.invulnerable_timer > 1

\* C40: in every frame that updates a player whose y is beyond the world
\* depth, a player whose window is over loses a power level (2.0 s window)
\* or else a life (3.0 s window unless it was the last), and a player whose
\* window is open loses nothing; no frame moves the player sideways or up;
\* and a player beyond the world depth leads to GAME_OVER
C40_FallEndsGame ==
    /\ [](hist.op = "playing_update" /\ InSeq(hist.updated, "player")
             /\ player.y > Px(WORLD_DEPTH)
          => IF WindowOpenAtTest(hist.pre_scene.player)
             THEN /\ player.lives = hist.pre_scene.player.lives
                  /\ player.power_level = hist.pre_scene.player.power_level
             ELSE IF hist.pre_scene.player.power_level > 0
             THEN /\ player.power_level = hist.pre_scene.player.power_level - 1
                  /\ player.lives = hist.pre_scene.player.lives
                  /\ player.invulnerable /\ player.invulnerable_timer = Secs(20)
             ELSE /\ player.lives = hist.pre_scene.player.lives - 1
                  /\ player.power_level = 0
                  /\ player.lives > 0
                        => player.invulnerable /\ player.invulnerable_timer = Secs(30))
    /\ [](hist.op = "playing_update"
          => player.x = hist.pre_scene.player.x /\ player.y >= hist.pre_scene.player.y)
    /\ (player.y > Px(WORLD_DEPTH) ~> (game.state = "game_over" /\ ~player.active))

\* the engine enters GAME_OVER after the fall has taken the three lives
C40_Witness ==
    /\ game.state = "game_over" /\ ~player.active /\ player.lives = 0
    /\ player.y > Px(WORLD_DEPTH) /\ hist.pre_scene.player.lives = 0
    /\ frames > 2 * Secs(30)

\* a frame below the world depth in which the open window keeps the damage off
C40_WitnessWindow ==
    /\ hist.op = "playing_update" /\ InSeq(hist.updated, "player")
    /\ hist.pre_scene.player.y > Px(WORLD_DEPTH)
    /\ WindowOpenAtTest(hist.pre_scene.player) /\ player.lives = 2

(* ---- Geometry of a pair of entities: collides_with, get_collision_side ---- *)

\* Entity.__init__ with the two flags set afterwards
Entity(x, y, width, height, active, solid) ==
    [type |-> "entity", x |-> x, y |-> y, w |-> width, h |-> height,
     vx |-> 0, vy |-> 0, active |-> active, solid |-> solid]

\* the first entity sits at the origin up to half a pixel either way
GeoOffsets == {0 - (PS \div 2), 0, PS \div 2}
\* the second entity: apart, touching, overlapping by 10 px or by half a pixel
GeoCoords == {Px(0 - TILE_SIZE), Px(0 - 22), Px(0), Px(22),
              Px(TILE_SIZE) - (PS \div 2), Px(TILE_SIZE)}

InitGeom ==
    /\ platforms = << >>
    /\ player = Absent /\ enemy = Absent /\ powerup = Absent
    /\ frames = 0
    /\ hist = [op |-> "init"]
    /\ hits = << >>
    /\ \E x \in GeoOffsets, y \in {0, PS \div 2}, act \in BOOLEAN, sol \in BOOLEAN :
          geoA = Entity(x, y, TILE_SIZE, TILE_SIZE, act, sol)
    /\ \E x \in GeoCoords, y \in GeoCoords, act \in BOOLEAN, sol \in BOOLEAN :
          geoB = Entity(x, y, TILE_SIZE, TILE_SIZE, act, sol)
    /\ geoRes = [op |-> "none"]
    /\ mgr = NoManager
    /\ NoExtras

CallCollidesWith ==
    /\ geoRes' = [op |-> "collides_with", val |-> collides_with(geoA, geoB)]
    /\ UNCHANGED <<platforms, player, enemy, powerup, frames, hist, hits, geoA, geoB, mgr, coin, goal, game, block>>

CallGetCollisionSide ==
    /\ geoRes' = [op |-> "get_collision_side", val |-> get_collision_side(geoA, geoB)]
    /\ UNCHANGED <<platforms, player, enemy, powerup, frames, hist, hits, geoA, geoB, mgr, coin, goal, game, block>>

NextGeom == CallCollidesWith \/ CallGetCollisionSide

SpecGeom == InitGeom /\ [][NextGeom]_vars

\* the integer rectangles of a and b share a point on the x axis / on the y axis
OverlapX(a, b) == Max2(IntTrunc(a.x), IntTrunc(b.x)) < Min2(IntTrunc(a.x) + a.w, IntTrunc(b.x) + b.w)
OverlapY(a, b) == Max2(IntTrunc(a.y), IntTrunc(b.y)) < Min2(IntTrunc(a.y) + a.h, IntTrunc(b.y) + b.h)

\* C1: collides_with(a, b) is true exactly when a and b are both active, both
\* solid, and their rectangles overlap on both axes; with an inactive or
\* non-solid participant it is false whatever the overlap.
C1_CollidesIff ==
    geoRes.op = "collides_with" =>
        /\ geoRes.val = (/\ geoA.active /\ geoB.active /\ geoA.solid /\ geoB.solid
                         /\ OverlapX(geoA, geoB) /\ OverlapY(geoA, geoB))
        /\ (~(geoA.active /\ geoB.active /\ geoA.solid /\ geoB.solid) => geoRes.val = FALSE)

\* a non-solid participant whose rectangle overlaps the other's: no collision
C1_Witness ==
    /\ geoRes.op = "collides_with"
    /\ geoRes.val = FALSE
    /\ geoA.active /\ geoB.active /\ geoA.solid /\ ~geoB.solid
    /\ OverlapX(geoA, geoB) /\ OverlapY(geoA, geoB)

\* the least positive overlap of an intersecting pair is attained by a
\* horizontal and by a vertical overlap at once
EqualMargins(a, b) ==
    LET h == {o \in {Right(a) - b.x, Right(b) - a.x} : o > 0}
        v == {o \in {Bottom(a) - b.y, Bottom(b) - a.y} : o > 0}
    IN /\ collides_with(a, b)
       /\ \E m \in h \cap v : \A o \in h \cup v : m <= o

\* C6: for an intersecting pair with equal horizontal and vertical margins
\* get_collision_side always returns "left".
C6_TieIsLeft ==
    (geoRes.op = "get_collision_side" /\ EqualMargins(geoA, geoB)) => geoRes.val = "left"

\* a tie has been put to get_collision_side
C6_Witness ==
    geoRes.op = "get_collision_side" /\ EqualMargins(geoA, geoB)

=============================================================================
